---------------------------- MODULE Spec2Model ----------------------------
(***************************************************************************)
(* Text reconstruction pipeline of hearsay/pdf.py: page filter,            *)
(* boilerplate stripper, whitespace normalizer, line classifier and line   *)
(* rejoiner.                                                               *)
(*                                                                         *)
(* A text is a sequence of characters; a character is a one-element        *)
(* string.  Printable ASCII characters stand for themselves, "\n" and "\t" *)
(* are the newline and the tab, and a character that cannot be written in  *)
(* an ASCII module is written by its name ("<fi>" is U+FB01, "(c)" is      *)
(* U+00A9).  Positions are counted as in Python: position p of a text      *)
(* lies before its character p+1, and lines[i] of the code is lines[i+1]   *)
(* here.                                                                   *)
(***************************************************************************)
EXTENDS Integers, Sequences, FiniteSets, TLC

Max(S) == CHOOSE x \in S : \A y \in S : y <= x
Min(S) == CHOOSE x \in S : \A y \in S : y >= x
\* The k-th smallest element of a set of numbers.
Nth(S, k) == CHOOSE x \in S : Cardinality({y \in S : y <= x}) = k

(***************************************************************************)
(* Characters and the str methods the code uses.                           *)
(***************************************************************************)
LowerSeq ==
    <<"a","b","c","d","e","f","g","h","i","j","k","l","m",
      "n","o","p","q","r","s","t","u","v","w","x","y","z">>
UpperSeq ==
    <<"A","B","C","D","E","F","G","H","I","J","K","L","M",
      "N","O","P","Q","R","S","T","U","V","W","X","Y","Z">>
Lower == {LowerSeq[k] : k \in 1..26}
Upper == {UpperSeq[k] : k \in 1..26}
Digit == {"0","1","2","3","4","5","6","7","8","9"}
Letter == Lower \cup Upper
\* str.islower(), str.isupper() of one character: the typographic ligatures are
\* lower-case letters to Python, though no [a-z] matches them.
Ligature == {"<fi>", "<fl>", "<ff>", "<ffi>", "<ffl>"}
IsLower(c) == c \in Lower \cup Ligature
IsUpper(c) == c \in Upper
\* The characters \w matches.
Word == Letter \cup Digit \cup {"_"} \cup Ligature
\* The characters str.strip() removes and \s matches.
WS == {" ", "\t", "\n", "\r", "\f"}

LowerOf == [c \in Upper |-> LowerSeq[CHOOSE k \in 1..26 : UpperSeq[k] = c]]
ToLower(c) == IF c \in Upper THEN LowerOf[c] ELSE c
\* str.lower()
LowerStr(s) == [k \in 1..Len(s) |-> ToLower(s[k])]

\* str.lstrip(), str.rstrip(), str.strip()
LStrip(s) ==
    LET n == Min({k \in 0..Len(s) : k = Len(s) \/ s[k + 1] \notin WS})
    IN  SubSeq(s, n + 1, Len(s))
RStrip(s) ==
    LET n == Max({k \in 0..Len(s) : k = 0 \/ s[k] \notin WS})
    IN  SubSeq(s, 1, n)
Strip(s) == LStrip(RStrip(s))

\* str.rstrip(chars)
RStripChars(s, cs) ==
    LET n == Max({k \in 0..Len(s) : k = 0 \/ s[k] \notin cs})
    IN  SubSeq(s, 1, n)

\* str.endswith(suf)
EndsWith(s, suf) ==
    /\ Len(suf) <= Len(s)
    /\ SubSeq(s, Len(s) - Len(suf) + 1, Len(s)) = suf

\* str.split(sep) for a one-character separator.
SplitOn(s, sep) ==
    LET at == {p \in 1..Len(s) : s[p] = sep}
        n == Cardinality(at)
        cut == [k \in 0..(n + 1) |->
                  IF k = 0 THEN 0 ELSE IF k = n + 1 THEN Len(s) + 1 ELSE Nth(at, k)]
    IN  [k \in 1..(n + 1) |-> SubSeq(s, cut[k - 1] + 1, cut[k] - 1)]
SplitNL(s) == SplitOn(s, "\n")

\* sep.join(parts)
RECURSIVE Join(_, _)
Join(sep, parts) ==
    IF parts = <<>> THEN <<>>
    ELSE IF Len(parts) = 1 THEN parts[1]
    ELSE parts[1] \o sep \o Join(sep, Tail(parts))
JoinNL(parts) == Join(<<"\n">>, parts)

\* str.split(): the maximal runs of non-whitespace characters.
Split(s) ==
    LET first == {p \in 1..Len(s) : s[p] \notin WS /\ (p = 1 \/ s[p - 1] \in WS)}
        last == {p \in 1..Len(s) : s[p] \notin WS /\ (p = Len(s) \/ s[p + 1] \in WS)}
    IN  [k \in 1..Cardinality(first) |-> SubSeq(s, Nth(first, k), Nth(last, k))]

\* str.isupper(): a cased character, and no lower-case one.
IsUpperStr(s) ==
    /\ \E k \in 1..Len(s) : IsUpper(s[k])
    /\ \A k \in 1..Len(s) : ~IsLower(s[k])

\* str.replace(c, repl) for a one-character c.
Replace(s, c, repl) == Join(repl, SplitOn(s, c))

(***************************************************************************)
(* Regular expressions, as the re module matches them.  A pattern is a     *)
(* sequence of items: a literal string (Lit; LitI with IGNORECASE), a      *)
(* repeated character class (Rep), an anchor, a lookahead (?=a|b) or a     *)
(* group (a|b).  MatchAt(re, k, txt, p) is the position where the match of *)
(* the items k.. of re that starts at p ends, or -1 when there is none;    *)
(* of several matches it is the one re's backtracking finds first: a       *)
(* greedy repeat takes the longest run that lets the rest match, a lazy    *)
(* one the shortest, a group its first branch that does.                   *)
(***************************************************************************)
Inf == 1000000
Lit(s) == [t |-> "lit", s |-> s, icase |-> FALSE]
LitI(s) == [t |-> "lit", s |-> s, icase |-> TRUE]
Rep(set, neg, lo, hi, lazy) ==
    [t |-> "rep", s |-> set, neg |-> neg, lo |-> lo, hi |-> hi, lazy |-> lazy]
One(set) == Rep(set, FALSE, 1, 1, FALSE)
Opt(set) == Rep(set, FALSE, 0, 1, FALSE)
Star(set) == Rep(set, FALSE, 0, Inf, FALSE)
Plus(set) == Rep(set, FALSE, 1, Inf, FALSE)
\* "." is every character but the newline, and every character with DOTALL.
Dot == {"\n"}
DotStar == Rep(Dot, TRUE, 0, Inf, FALSE)
DotStarLazy == Rep(Dot, TRUE, 0, Inf, TRUE)
AnyStarLazy == Rep({}, TRUE, 0, Inf, TRUE)
\* "^" and "$" with MULTILINE (Bol, Eol) and without (Bos, Eos); "\b" (Wb).
Bol == [t |-> "bol"]
Eol == [t |-> "eol"]
Bos == [t |-> "bos"]
Eos == [t |-> "eos"]
Wb == [t |-> "wb"]
Look(alts) == [t |-> "look", alts |-> alts]
Alt(alts) == [t |-> "alt", alts |-> alts]

InClass(it, c) == (c \in it.s) # it.neg

LitAt(it, txt, p) ==
    /\ p + Len(it.s) <= Len(txt)
    /\ \A j \in 1..Len(it.s) :
          IF it.icase THEN ToLower(txt[p + j]) = ToLower(it.s[j])
          ELSE txt[p + j] = it.s[j]

\* The length of the longest run of at most it.hi characters of the class at p.
RunLen(it, txt, p) ==
    LET most == IF it.hi < Len(txt) - p THEN it.hi ELSE Len(txt) - p
    IN  Max({n \in 0..most : \A j \in 1..n : InClass(it, txt[p + j])})

RECURSIVE MatchAt(_, _, _, _), TryAlt(_, _, _, _, _)
MatchAt(re, k, txt, p) ==
    IF k > Len(re) THEN p
    ELSE LET it == re[k] IN
      CASE it.t = "lit" ->
             IF LitAt(it, txt, p) THEN MatchAt(re, k + 1, txt, p + Len(it.s)) ELSE -1
        [] it.t = "rep" ->
             LET ok == {n \in it.lo..RunLen(it, txt, p) :
                           MatchAt(re, k + 1, txt, p + n) # -1}
             IN  IF ok = {} THEN -1
                 ELSE MatchAt(re, k + 1, txt, p + (IF it.lazy THEN Min(ok) ELSE Max(ok)))
        [] it.t = "bol" ->
             IF p = 0 \/ txt[p] = "\n" THEN MatchAt(re, k + 1, txt, p) ELSE -1
        [] it.t = "eol" ->
             IF p = Len(txt) \/ txt[p + 1] = "\n"
             THEN MatchAt(re, k + 1, txt, p) ELSE -1
        [] it.t = "bos" ->
             IF p = 0 THEN MatchAt(re, k + 1, txt, p) ELSE -1
        [] it.t = "eos" ->
             IF p = Len(txt) \/ (p = Len(txt) - 1 /\ txt[p + 1] = "\n")
             THEN MatchAt(re, k + 1, txt, p) ELSE -1
        [] it.t = "wb" ->
             IF (p > 0 /\ txt[p] \in Word) # (p < Len(txt) /\ txt[p + 1] \in Word)
             THEN MatchAt(re, k + 1, txt, p) ELSE -1
        [] it.t = "look" ->
             IF \E a \in 1..Len(it.alts) : MatchAt(it.alts[a], 1, txt, p) # -1
             THEN MatchAt(re, k + 1, txt, p) ELSE -1
        [] it.t = "alt" -> TryAlt(re, k, txt, p, 1)
TryAlt(re, k, txt, p, a) ==
    IF a > Len(re[k].alts) THEN -1
    ELSE LET e == MatchAt(re[k].alts[a] \o SubSeq(re, k + 1, Len(re)), 1, txt, p) IN
         IF e # -1 THEN e ELSE TryAlt(re, k, txt, p, a + 1)

\* re.match: the pattern matches at the start of txt.
ReMatch(re, txt) == MatchAt(re, 1, txt, 0) # -1
\* re.search: the pattern matches somewhere in txt.
ReSearch(re, txt) == \E p \in 0..Len(txt) : MatchAt(re, 1, txt, p) # -1

\* re.sub(re, repl, txt): the leftmost match from p on is replaced, and the
\* scan goes on where that match ends.  (No pattern here matches the empty
\* string.)
RECURSIVE SubFrom(_, _, _, _)
SubFrom(re, repl, txt, p) ==
    LET starts == {q \in p..(Len(txt) - 1) : MatchAt(re, 1, txt, q) > q} IN
    IF starts = {} THEN SubSeq(txt, p + 1, Len(txt))
    ELSE LET q == Min(starts) IN
         SubSeq(txt, p + 1, q) \o repl \o SubFrom(re, repl, txt, MatchAt(re, 1, txt, q))
ReSub(re, repl, txt) == SubFrom(re, repl, txt, 0)

(***************************************************************************)
(* The pattern tables of pdf.py and the patterns written inline in its     *)
(* functions, item by item.  SKIP_PAGE_PATTERNS are searched with          *)
(* IGNORECASE, REMOVE_BLOCKS are substituted with MULTILINE | DOTALL |     *)
(* IGNORECASE, REMOVE_PATTERNS with MULTILINE, continuation_endings are    *)
(* searched with IGNORECASE.                                               *)
(***************************************************************************)
SKIP_PAGE_PATTERNS ==
    <<
      \* pdf.py:11  r"You may also like"
      <<LitI(<<"Y","o","u"," ","m","a","y"," ","a","l","s","o"," ","l","i","k","e">>)>>,
      \* pdf.py:12  r"To cite this article:"
      <<LitI(<<"T","o"," ","c","i","t","e"," ","t","h","i","s"," ","a","r","t","i","c","l","e",":">>)>>,
      \* pdf.py:13  r"View the article online for updates"
      <<LitI(<<"V","i","e","w"," ","t","h","e"," ","a","r","t","i","c","l","e"," ","o","n","l","i","n","e"," ","f","o","r"," ","u","p","d","a","t","e","s">>)>>,
      \* pdf.py:14  r"This content was downloaded from IP address"
      <<LitI(<<"T","h","i","s"," ","c","o","n","t","e","n","t"," ","w","a","s"," ","d","o","w","n","l","o","a","d","e","d"," ","f","r","o","m"," ","I","P"," ","a","d","d","r","e","s","s">>)>>
    >>

REMOVE_BLOCKS ==
    <<
      \* pdf.py:20  r"HAL Id:.*?(?=From sedimentary|Abstract|Introduction|\n\n[A-Z][a-z])"
      <<LitI(<<"H","A","L"," ","I","d",":">>), AnyStarLazy,
        Look(<< <<LitI(<<"F","r","o","m"," ","s","e","d","i","m","e","n","t","a","r","y">>)>>,
        <<LitI(<<"A","b","s","t","r","a","c","t">>)>>,
        <<LitI(<<"I","n","t","r","o","d","u","c","t","i","o","n">>)>>,
        <<LitI(<<"\n","\n">>), One(Letter), One(Letter)>> >>)>>,
      \* pdf.py:22  r"Source:.*?Stable URL:.*?(?=ABSTRACT|Abstract|Introduction)"
      <<LitI(<<"S","o","u","r","c","e",":">>), AnyStarLazy,
        LitI(<<"S","t","a","b","l","e"," ","U","R","L",":">>), AnyStarLazy,
        Look(<< <<LitI(<<"A","B","S","T","R","A","C","T">>)>>,
        <<LitI(<<"A","b","s","t","r","a","c","t">>)>>,
        <<LitI(<<"I","n","t","r","o","d","u","c","t","i","o","n">>)>> >>)>>,
      \* pdf.py:23  r"JSTOR is a not-for-profit service.*?(?=ABSTRACT|Abstract|[A-Z]{2,})"
      <<LitI(<<"J","S","T","O","R"," ","i","s"," ","a"," ","n","o","t","-","f","o","r","-","p","r","o","f","i","t"," ","s","e","r","v","i","c","e">>),
        AnyStarLazy, Look(<< <<LitI(<<"A","B","S","T","R","A","C","T">>)>>,
        <<LitI(<<"A","b","s","t","r","a","c","t">>)>>, <<Rep(Letter, FALSE,
        2, Inf, FALSE)>> >>)>>,
      \* pdf.py:24  r"Your use of the JSTOR archive.*?(?=\n\n)"
      <<LitI(<<"Y","o","u","r"," ","u","s","e"," ","o","f"," ","t","h","e"," ","J","S","T","O","R"," ","a","r","c","h","i","v","e">>),
        AnyStarLazy, Look(<< <<LitI(<<"\n","\n">>)>> >>)>>,
      \* pdf.py:25  r"This content downloaded from.*?(?=\n\n|\n[A-Z])"
      <<LitI(<<"T","h","i","s"," ","c","o","n","t","e","n","t"," ","d","o","w","n","l","o","a","d","e","d"," ","f","r","o","m">>),
        AnyStarLazy, Look(<< <<LitI(<<"\n","\n">>)>>,
        <<LitI(<<"\n">>), One(Letter)>> >>)>>
    >>

REMOVE_PATTERNS ==
    <<
      \* pdf.py:30  r"This content was downloaded from IP address.*?(?=\n|$)"
      <<Lit(<<"T","h","i","s"," ","c","o","n","t","e","n","t"," ","w","a","s"," ","d","o","w","n","l","o","a","d","e","d"," ","f","r","o","m"," ","I","P"," ","a","d","d","r","e","s","s">>),
        DotStarLazy, Look(<< <<Lit(<<"\n">>)>>, <<Eol>> >>)>>,
      \* pdf.py:31  r"This content downloaded from.*$"
      <<Lit(<<"T","h","i","s"," ","c","o","n","t","e","n","t"," ","d","o","w","n","l","o","a","d","e","d"," ","f","r","o","m">>),
        DotStar, Eol>>,
      \* pdf.py:32  r"All use subject to https://about\.jstor\.org/terms\s*$"
      <<Lit(<<"A","l","l"," ","u","s","e"," ","s","u","b","j","e","c","t"," ","t","o"," ","h","t","t","p","s",":","/","/","a","b","o","u","t",".","j","s","t","o","r",".","o","r","g","/","t","e","r","m","s">>),
        Star(WS), Eol>>,
      \* pdf.py:33  r"^OPEN ACCESS\s*$"
      <<Bol, Lit(<<"O","P","E","N"," ","A","C","C","E","S","S">>), Star(WS),
        Eol>>,
      \* pdf.py:34  r"^RECEIVED\s*$"
      <<Bol, Lit(<<"R","E","C","E","I","V","E","D">>), Star(WS), Eol>>,
      \* pdf.py:35  r"^REVISED\s*$"
      <<Bol, Lit(<<"R","E","V","I","S","E","D">>), Star(WS), Eol>>,
      \* pdf.py:36  r"^ACCEPTED FOR PUBLICATION\s*$"
      <<Bol,
        Lit(<<"A","C","C","E","P","T","E","D"," ","F","O","R"," ","P","U","B","L","I","C","A","T","I","O","N">>),
        Star(WS), Eol>>,
      \* pdf.py:37  r"^PUBLISHED\s*$"
      <<Bol, Lit(<<"P","U","B","L","I","S","H","E","D">>), Star(WS), Eol>>,
      \* pdf.py:38  r"^\d{1,2}\s+\w+\s+\d{4}\s*$"
      <<Bol, Rep(Digit, FALSE, 1, 2, FALSE), Plus(WS), Plus(Word), Plus(WS),
        Rep(Digit, FALSE, 4, 4, FALSE), Star(WS), Eol>>,
      \* pdf.py:39  r"^Original content from\s*$"
      <<Bol,
        Lit(<<"O","r","i","g","i","n","a","l"," ","c","o","n","t","e","n","t"," ","f","r","o","m">>),
        Star(WS), Eol>>,
      \* pdf.py:40  r"^this work may be used\s*$"
      <<Bol,
        Lit(<<"t","h","i","s"," ","w","o","r","k"," ","m","a","y"," ","b","e"," ","u","s","e","d">>),
        Star(WS), Eol>>,
      \* pdf.py:41  r"^under the terms of the\s*$"
      <<Bol,
        Lit(<<"u","n","d","e","r"," ","t","h","e"," ","t","e","r","m","s"," ","o","f"," ","t","h","e">>),
        Star(WS), Eol>>,
      \* pdf.py:42  r"^Creative Commons\s*$"
      <<Bol,
        Lit(<<"C","r","e","a","t","i","v","e"," ","C","o","m","m","o","n","s">>),
        Star(WS), Eol>>,
      \* pdf.py:43  r"^Attribution \d\.\d licence\.?\s*$"
      <<Bol, Lit(<<"A","t","t","r","i","b","u","t","i","o","n"," ">>),
        One(Digit), Lit(<<".">>), One(Digit),
        Lit(<<" ","l","i","c","e","n","c","e">>), Opt({"."}), Star(WS), Eol>>,
      \* pdf.py:44  r"^Any further distribution\s*$"
      <<Bol,
        Lit(<<"A","n","y"," ","f","u","r","t","h","e","r"," ","d","i","s","t","r","i","b","u","t","i","o","n">>),
        Star(WS), Eol>>,
      \* pdf.py:45  r"^of this work must\s*$"
      <<Bol,
        Lit(<<"o","f"," ","t","h","i","s"," ","w","o","r","k"," ","m","u","s","t">>),
        Star(WS), Eol>>,
      \* pdf.py:46  r"^maintain attribution to\s*$"
      <<Bol,
        Lit(<<"m","a","i","n","t","a","i","n"," ","a","t","t","r","i","b","u","t","i","o","n"," ","t","o">>),
        Star(WS), Eol>>,
      \* pdf.py:47  r"^the author\(s\) and the title\s*$"
      <<Bol,
        Lit(<<"t","h","e"," ","a","u","t","h","o","r","(","s",")"," ","a","n","d"," ","t","h","e"," ","t","i","t","l","e">>),
        Star(WS), Eol>>,
      \* pdf.py:48  r"^of the work,? journal\s*$"
      <<Bol, Lit(<<"o","f"," ","t","h","e"," ","w","o","r","k">>),
        Opt({","}), Lit(<<" ","j","o","u","r","n","a","l">>), Star(WS), Eol>>,
      \* pdf.py:49  r"^citation and DOI\.\s*$"
      <<Bol,
        Lit(<<"c","i","t","a","t","i","o","n"," ","a","n","d"," ","D","O","I",".">>),
        Star(WS), Eol>>,
      \* pdf.py:50  r"^https?://doi\.org/.*$"
      <<Bol, Lit(<<"h","t","t","p">>), Opt({"s"}),
        Lit(<<":","/","/","d","o","i",".","o","r","g","/">>), DotStar, Eol>>,
      \* pdf.py:51  r"^https?://\S+\s*$"
      <<Bol, Lit(<<"h","t","t","p">>), Opt({"s"}), Lit(<<":","/","/">>),
        Rep(WS, TRUE, 1, Inf, FALSE), Star(WS), Eol>>,
      \* pdf.py:52  r"^www\.[a-z\-]+\.(org|com|edu)\s*$"
      <<Bol, Lit(<<"w","w","w",".">>), Plus(Lower \cup {"-"}), Lit(<<".">>),
        Alt(<< <<Lit(<<"o","r","g">>)>>, <<Lit(<<"c","o","m">>)>>,
        <<Lit(<<"e","d","u">>)>> >>), Star(WS), Eol>>,
      \* pdf.py:53  r"^Environ\. Res\. Lett\..*$"
      <<Bol,
        Lit(<<"E","n","v","i","r","o","n","."," ","R","e","s","."," ","L","e","t","t",".">>),
        DotStar, Eol>>,
      \* pdf.py:54  r"(c)\s*\d{4}\s+The Author\(s\)\..*$"
      <<Lit(<<"(c)">>), Star(WS), Rep(Digit, FALSE, 4, 4, FALSE), Plus(WS),
        Lit(<<"T","h","e"," ","A","u","t","h","o","r","(","s",")",".">>),
        DotStar, Eol>>,
      \* pdf.py:55  r"^[A-Z]\s+[A-Z][a-z]+\s+et\s+al\s*$"
      <<Bol, One(Upper), Plus(WS), One(Upper), Plus(Lower), Plus(WS),
        Lit(<<"e","t">>), Plus(WS), Lit(<<"a","l">>), Star(WS), Eol>>,
      \* pdf.py:56  r"^IOP Publishing\s*$"
      <<Bol,
        Lit(<<"I","O","P"," ","P","u","b","l","i","s","h","i","n","g">>),
        Star(WS), Eol>>,
      \* pdf.py:57  r"^a\s+r\s+t\s+i\s+c\s+l\s+e\s+i\s+n\s+f\s+o\s*$"
      <<Bol, Lit(<<"a">>), Plus(WS), Lit(<<"r">>), Plus(WS), Lit(<<"t">>),
        Plus(WS), Lit(<<"i">>), Plus(WS), Lit(<<"c">>), Plus(WS),
        Lit(<<"l">>), Plus(WS), Lit(<<"e">>), Plus(WS), Lit(<<"i">>),
        Plus(WS), Lit(<<"n">>), Plus(WS), Lit(<<"f">>), Plus(WS),
        Lit(<<"o">>), Star(WS), Eol>>,
      \* pdf.py:58  r"^s\s+u\s+m\s+m\s+a\s+r\s+y\s*$"
      <<Bol, Lit(<<"s">>), Plus(WS), Lit(<<"u">>), Plus(WS), Lit(<<"m">>),
        Plus(WS), Lit(<<"m">>), Plus(WS), Lit(<<"a">>), Plus(WS),
        Lit(<<"r">>), Plus(WS), Lit(<<"y">>), Star(WS), Eol>>,
      \* pdf.py:59  r"^Article history:\s*$"
      <<Bol,
        Lit(<<"A","r","t","i","c","l","e"," ","h","i","s","t","o","r","y",":">>),
        Star(WS), Eol>>,
      \* pdf.py:60  r"^Received.*revised.*Accepted.*$"
      <<Bol, Lit(<<"R","e","c","e","i","v","e","d">>), DotStar,
        Lit(<<"r","e","v","i","s","e","d">>), DotStar,
        Lit(<<"A","c","c","e","p","t","e","d">>), DotStar, Eol>>,
      \* pdf.py:61  r"^Available online.*$"
      <<Bol,
        Lit(<<"A","v","a","i","l","a","b","l","e"," ","o","n","l","i","n","e">>),
        DotStar, Eol>>,
      \* pdf.py:62  r"^This manuscript was handled by.*$"
      <<Bol,
        Lit(<<"T","h","i","s"," ","m","a","n","u","s","c","r","i","p","t"," ","w","a","s"," ","h","a","n","d","l","e","d"," ","b","y">>),
        DotStar, Eol>>,
      \* pdf.py:63  r"^Keywords:\s*$"
      <<Bol, Lit(<<"K","e","y","w","o","r","d","s",":">>), Star(WS), Eol>>
    >>

continuation_endings ==
    <<
      \* pdf.py:295  r",$"
      <<LitI(<<",">>), Eos>>,
      \* pdf.py:296  r";$"
      <<LitI(<<";">>), Eos>>,
      \* pdf.py:297  r"\band$"
      <<Wb, LitI(<<"a","n","d">>), Eos>>,
      \* pdf.py:298  r"\bor$"
      <<Wb, LitI(<<"o","r">>), Eos>>,
      \* pdf.py:299  r"\bthe$"
      <<Wb, LitI(<<"t","h","e">>), Eos>>,
      \* pdf.py:300  r"\ba$"
      <<Wb, LitI(<<"a">>), Eos>>,
      \* pdf.py:301  r"\ban$"
      <<Wb, LitI(<<"a","n">>), Eos>>,
      \* pdf.py:302  r"\bof$"
      <<Wb, LitI(<<"o","f">>), Eos>>,
      \* pdf.py:303  r"\bin$"
      <<Wb, LitI(<<"i","n">>), Eos>>,
      \* pdf.py:304  r"\bto$"
      <<Wb, LitI(<<"t","o">>), Eos>>,
      \* pdf.py:305  r"\bfor$"
      <<Wb, LitI(<<"f","o","r">>), Eos>>,
      \* pdf.py:306  r"\bwith$"
      <<Wb, LitI(<<"w","i","t","h">>), Eos>>,
      \* pdf.py:307  r"\bby$"
      <<Wb, LitI(<<"b","y">>), Eos>>,
      \* pdf.py:308  r"\bfrom$"
      <<Wb, LitI(<<"f","r","o","m">>), Eos>>,
      \* pdf.py:309  r"\bthat$"
      <<Wb, LitI(<<"t","h","a","t">>), Eos>>,
      \* pdf.py:310  r"\bwhich$"
      <<Wb, LitI(<<"w","h","i","c","h">>), Eos>>,
      \* pdf.py:311  r"\bas$"
      <<Wb, LitI(<<"a","s">>), Eos>>,
      \* pdf.py:312  r"\bat$"
      <<Wb, LitI(<<"a","t">>), Eos>>,
      \* pdf.py:313  r"\bon$"
      <<Wb, LitI(<<"o","n">>), Eos>>,
      \* pdf.py:314  r"\bis$"
      <<Wb, LitI(<<"i","s">>), Eos>>,
      \* pdf.py:315  r"\bare$"
      <<Wb, LitI(<<"a","r","e">>), Eos>>,
      \* pdf.py:316  r"\bwas$"
      <<Wb, LitI(<<"w","a","s">>), Eos>>,
      \* pdf.py:317  r"\bwere$"
      <<Wb, LitI(<<"w","e","r","e">>), Eos>>,
      \* pdf.py:318  r"\bet$"
      <<Wb, LitI(<<"e","t">>), Eos>>,
      \* pdf.py:319  r"\bal$"
      <<Wb, LitI(<<"a","l">>), Eos>>,
      \* pdf.py:320  r"\(.*$"
      <<LitI(<<"(">>), DotStar, Eos>>
    >>

\* r"^\d+\s*$"
NumericLine ==
    <<Bol, Plus(Digit), Star(WS), Eol>>
\* r" +": the tab left out of the class.
SpaceRunNoTab ==
    <<Plus({" "})>>
\* r"[ \t]+"
SpaceRun ==
    <<Plus({" ", "\t"})>>
\* r"\n{3,}"
NewlineRun ==
    <<Rep({"\n"}, FALSE, 3, Inf, FALSE)>>
\* r"[.!?]\s*$"
TerminalPunct ==
    <<One({".", "!", "?"}), Star(WS), Eos>>
\* r"\d{4}[a-z]?\)\s*\.?\s*$"
CitationEnd ==
    <<Rep(Digit, FALSE, 4, 4, FALSE), Opt(Lower), Lit(<<")">>), Star(WS),
      Opt({"."}), Star(WS), Eos>>
\* r"^\d+\.?\d*\.?\s+[A-Z]"
NumberedSection ==
    <<Bos, Plus(Digit), Opt({"."}), Star(Digit), Opt({"."}), Plus(WS),
      One(Upper)>>
\* r"[.!?:;,]$"
PunctEnd ==
    <<One({".", "!", "?", ":", ";", ","}), Eos>>

(***************************************************************************)
(* Page Filter: _is_skip_page.                                             *)
(***************************************************************************)
\* The search without re.IGNORECASE.
IsSkipPageCaseSensitive(text) ==
    LET exact(re) == [n \in 1..Len(re) |-> [re[n] EXCEPT !.icase = FALSE]] IN
    \E k \in 1..Len(SKIP_PAGE_PATTERNS) : ReSearch(exact(SKIP_PAGE_PATTERNS[k]), text)

\* re.match in place of re.search: the phrase is looked for at the start only.
IsSkipPageAtStart(text) ==
    \E k \in 1..Len(SKIP_PAGE_PATTERNS) : ReMatch(SKIP_PAGE_PATTERNS[k], text)

IsSkipPage(text) ==
    \E k \in 1..Len(SKIP_PAGE_PATTERNS) : ReSearch(SKIP_PAGE_PATTERNS[k], text)

(***************************************************************************)
(* Line Classifier: _is_heading and _ends_sentence.                        *)
(***************************************************************************)
heading_words ==
    {<<"a","b","s","t","r","a","c","t">>,
     <<"i","n","t","r","o","d","u","c","t","i","o","n">>,
     <<"m","e","t","h","o","d","s">>,
     <<"r","e","s","u","l","t","s">>,
     <<"d","i","s","c","u","s","s","i","o","n">>,
     <<"c","o","n","c","l","u","s","i","o","n">>,
     <<"r","e","f","e","r","e","n","c","e","s">>,
     <<"a","c","k","n","o","w","l","e","d","g","m","e","n","t">>,
     <<"k","e","y","w","o","r","d","s">>,
     <<"s","u","m","m","a","r","y">>,
     <<"b","a","c","k","g","r","o","u","n","d">>}

FirstWord(line) ==
    IF Split(line) # <<>>
    THEN RStripChars(LowerStr(Split(line)[1]), {".", ":"}) ELSE <<>>

\* _is_heading with len(words) < 4 on line 360.
IsHeadingUnderFourWords(line) ==
    IF line = <<>> THEN FALSE
    ELSE IF ReMatch(NumberedSection, line) THEN TRUE
    ELSE IF IsUpperStr(line) /\ Len(line) < 60 THEN TRUE
    ELSE IF FirstWord(line) \in heading_words /\ Len(line) < 40 THEN TRUE
    ELSE IF /\ Len(line) < 30
            /\ IsUpper(line[1])
            /\ ~EndsWith(line, <<",">>)
            /\ Len(Split(line)) < 4 THEN TRUE
    ELSE FALSE

IsHeading(line) ==
    IF line = <<>> THEN FALSE
    ELSE IF ReMatch(NumberedSection, line) THEN TRUE
    ELSE IF IsUpperStr(line) /\ Len(line) < 60 THEN TRUE
    ELSE IF FirstWord(line) \in heading_words /\ Len(line) < 40 THEN TRUE
    ELSE IF /\ Len(line) < 30
            /\ IsUpper(line[1])
            /\ ~EndsWith(line, <<",">>)
            /\ Len(Split(line)) <= 4 THEN TRUE
    ELSE FALSE

\* The loop over continuation_endings.
Continues(line) ==
    \E k \in 1..Len(continuation_endings) : ReSearch(continuation_endings[k], line)

\* _ends_sentence without its first test: an empty line does not end a sentence.
EndsSentenceEmptyContinues(line) ==
    IF ReSearch(TerminalPunct, line) THEN TRUE
    ELSE IF ReSearch(CitationEnd, line) THEN TRUE
    ELSE IF EndsWith(line, <<":">>) THEN TRUE
    ELSE FALSE

\* _ends_sentence with True as the value of its last line.
EndsSentenceByDefault(line) ==
    IF line = <<>> THEN TRUE
    ELSE IF ReSearch(TerminalPunct, line) THEN TRUE
    ELSE IF ReSearch(CitationEnd, line) THEN TRUE
    ELSE IF EndsWith(line, <<":">>) THEN TRUE
    ELSE IF Continues(line) THEN FALSE
    ELSE IF Len(line) < 60 /\ ~ReSearch(PunctEnd, line) THEN FALSE
    ELSE TRUE

EndsSentence(line) ==
    IF line = <<>> THEN TRUE
    ELSE IF ReSearch(TerminalPunct, line) THEN TRUE
    ELSE IF ReSearch(CitationEnd, line) THEN TRUE
    ELSE IF EndsWith(line, <<":">>) THEN TRUE
    ELSE IF Continues(line) THEN FALSE
    ELSE IF Len(line) < 60 /\ ~ReSearch(PunctEnd, line) THEN FALSE
    ELSE FALSE

(***************************************************************************)
(* Line Rejoiner: _rejoin_broken_lines.  InnerStep is one iteration of the *)
(* inner while loop, entered with i + 1 < len(lines): it returns the new   *)
(* cursor and accumulated line, and whether the loop continues (cont) or   *)
(* was left by a break.                                                    *)
(***************************************************************************)
Break(i, line) == [i |-> i, line |-> line, cont |-> FALSE]
\* A join that forgets i += 1.
ContinueStalled(i, line) == [i |-> i - 1, line |-> line, cont |-> TRUE]
\* A join followed by a break: the inner loop stops after one join.
ContinueOnce(i, line) == [i |-> i, line |-> line, cont |-> FALSE]
Continue(i, line) == [i |-> i, line |-> line, cont |-> TRUE]

\* The test for " -" without its negation.
IsWordBreakSpaced(line) == EndsWith(line, <<"-">>) /\ EndsWith(line, <<" ", "-">>)
IsWordBreak(line) == EndsWith(line, <<"-">>) /\ ~EndsWith(line, <<" ", "-">>)

\* The iteration without the test of lines 250-251 on next_line.
JoinStepNextUnchecked(i, line, next_line) ==
    IF IsHeading(line) THEN Break(i, line)
    ELSE IF IsWordBreak(line)
         THEN Continue(i + 1, SubSeq(line, 1, Len(line) - 1) \o next_line)
    ELSE IF ~EndsSentence(line)
         THEN Continue(i + 1, line \o <<" ">> \o next_line)
    ELSE Break(i, line)

\* Lines 246-268: the iteration after next_line has been chosen.
\* Lines 246-268 without the test of line 261: a line that is no heading is
\* always extended.
JoinStepSentenceUnchecked(i, line, next_line) ==
    IF IsHeading(line) THEN Break(i, line)
    ELSE IF IsHeading(next_line) THEN Break(i, line)
    ELSE IF IsWordBreak(line)
         THEN Continue(i + 1, SubSeq(line, 1, Len(line) - 1) \o next_line)
    ELSE Continue(i + 1, line \o <<" ">> \o next_line)

\* Lines 246-268 with line[:-2] on line 256.
JoinStepChopsTwo(i, line, next_line) ==
    IF IsHeading(line) THEN Break(i, line)
    ELSE IF IsHeading(next_line) THEN Break(i, line)
    ELSE IF IsWordBreak(line)
         THEN Continue(i + 1, SubSeq(line, 1, Len(line) - 2) \o next_line)
    ELSE IF ~EndsSentence(line) THEN Continue(i + 1, line \o <<" ">> \o next_line)
    ELSE Break(i, line)

JoinStep(i, line, next_line) ==
    IF IsHeading(line) THEN Break(i, line)
    ELSE IF IsHeading(next_line) THEN Break(i, line)
    ELSE IF IsWordBreak(line)
         THEN Continue(i + 1, SubSeq(line, 1, Len(line) - 1) \o next_line)
    ELSE IF ~EndsSentence(line)
         THEN Continue(i + 1, line \o <<" ">> \o next_line)
    ELSE Break(i, line)

\* The condition of lines 237-238 with "not _ends_sentence(line)" turned round.
BridgesAfterSentence(line, after_empty) ==
    /\ after_empty # <<>>
    /\ IsLower(after_empty[1])
    /\ EndsSentence(line)
    /\ ~IsHeading(after_empty)

\* Lines 237-238: the line after an empty line continues the current line.
Bridges(line, after_empty) ==
    /\ after_empty # <<>>
    /\ IsLower(after_empty[1])
    /\ ~EndsSentence(line)
    /\ ~IsHeading(after_empty)

\* Lines 227-268 with every test made on the physical line read last
\* instead of the line accumulated so far.
InnerStepLastPiece(lines, i, line) ==
    LET piece == Strip(lines[i + 1])
        next_line == Strip(lines[i + 2])
        bridged == next_line = <<>> /\ i + 2 < Len(lines)
                      /\ Bridges(piece, Strip(lines[i + 3]))
        n == IF bridged THEN Strip(lines[i + 3]) ELSE next_line
        j == IF bridged THEN i + 1 ELSE i
    IN  IF next_line = <<>> /\ ~bridged THEN Break(i, line)
        ELSE IF IsHeading(piece) \/ IsHeading(n) THEN Break(j, line)
        ELSE IF IsWordBreak(piece)
             THEN Continue(j + 1, SubSeq(line, 1, Len(line) - 1) \o n)
        ELSE IF ~EndsSentence(piece) THEN Continue(j + 1, line \o <<" ">> \o n)
        ELSE Break(j, line)

InnerStep(lines, i, line) ==
    LET next_line == Strip(lines[i + 2]) IN
    IF next_line = <<>>
    THEN IF i + 2 < Len(lines)
         THEN LET after_empty == Strip(lines[i + 3]) IN
              IF Bridges(line, after_empty)
              THEN JoinStep(i + 1, line, after_empty)
              ELSE Break(i, line)
         ELSE Break(i, line)
    ELSE JoinStep(i, line, next_line)

(***************************************************************************)
(* clean_text, pass by pass.                                               *)
(***************************************************************************)
\* Lines 171-177 with the fourth expansion mistyped.
ligaturesMistyped ==
    << <<"<fi>", <<"f","i">> >>, <<"<fl>", <<"f","l">> >>,
       <<"<ff>", <<"f","f">> >>, <<"<ffi>", <<"f","i">> >>,
       <<"<ffl>", <<"f","f","l">> >> >>
ligatures ==
    << <<"<fi>", <<"f","i">> >>, <<"<fl>", <<"f","l">> >>,
       <<"<ff>", <<"f","f">> >>, <<"<ffi>", <<"f","f","i">> >>,
       <<"<ffl>", <<"f","f","l">> >> >>

\* for lig, replacement in ligatures.items(): the text after the first k.
RECURSIVE FixLigaturesUpTo(_, _)
FixLigaturesUpTo(text, k) ==
    IF k = 0 THEN text
    ELSE Replace(FixLigaturesUpTo(text, k - 1), ligatures[k][1], ligatures[k][2])
\* The loop of lines 178-179 ended one entry early.
FixLigaturesAllButLast(text) == FixLigaturesUpTo(text, Len(ligatures) - 1)
FixLigatures(text) == FixLigaturesUpTo(text, Len(ligatures))

RemovePageNumbers(text) == ReSub(NumericLine, <<>>, text)
CollapseSpaces(text) == ReSub(SpaceRun, <<" ">>, text)
\* The runs of newlines cut to three, not two.
NormalizeNewlinesToThree(text) == ReSub(NewlineRun, <<"\n", "\n", "\n">>, text)
NormalizeNewlines(text) == ReSub(NewlineRun, <<"\n", "\n">>, text)
StripLines(text) ==
    LET ls == SplitNL(text) IN JoinNL([n \in 1..Len(ls) |-> Strip(ls[n])])

(***************************************************************************)
(* The inputs.  A document is a sequence of at most MaxPages pages, each   *)
(* the text page.get_text() returns for it; the rejoiner taken alone is    *)
(* given at most MaxLines physical lines.                                  *)
(***************************************************************************)
MaxPages == 2
MaxLines == 3

PageVocab ==
    { <<" ">>,
      <<"D","o",".","\n","y","o","u"," ","M","A","Y"," ","a","l","s","o"," ",
        "l","i","k","e">>,
      <<"a","b"," ","c","d">>,
      <<"e","f"," ","g","h",".">>,
      <<"T","I","T","L","E">>,
      <<"a","b","\n","\n","\n","\n","c","d">>,
      <<"H","A","L"," ","I","d",":","\n","1">>,
      <<"x","\n"," ","\n","\t","\n","y"," "," ","z">>,
      <<"<fi>","r","e","-">>,
      <<"\n","\n","\n","i","j"," ","k","l">>,
      <<"O","P","E","N"," ","A","C","C","E","S","S","\n","1","2">>,
      <<"U","v"," ","w","w"," ","x","x"," ","y","y"," ","z","z">>,
      <<"a","b","\r","\n","c","\r","d">>,
      <<"o","<ffi>","c","e"," ","<fl>","u","<ff>","<ffl>","e","<fi>">> }
Docs == UNION {[1..n -> PageVocab] : n \in 0..MaxPages}

LineVocab ==
    { <<>>,
      <<" ">>,
      <<"a","b">>,
      <<"c","d",".">>,
      <<"T","I","T","L","E">>,
      <<"r","e","-">>,
      <<"x"," ","-">>,
      <<"r","e","s","u","l","t","s"," ","o","k">>,
      <<"A","b",",">> }
RejoinInputs == {JoinNL(ls) : ls \in UNION {[1..n -> LineVocab] : n \in 0..MaxLines}}

(***************************************************************************)
(* The program state.                                                      *)
(***************************************************************************)
VARIABLES
    pages,       \* the document: the text of each of its pages
    pc,          \* where the call is
    doc,         \* the document handle: "none", "open" or "closed"
    page_num,    \* extract_text: the page the loop is at
    text_parts,  \* extract_text: the texts of the pages kept so far
    text,        \* clean_text: the working buffer
    k,           \* clean_text: how many patterns of the current table were applied
    lines,       \* _rejoin_broken_lines: the physical lines
    i,           \* _rejoin_broken_lines: the cursor
    line,        \* _rejoin_broken_lines: the accumulated line
    result,      \* _rejoin_broken_lines: the logical lines emitted so far
    ret,         \* the value returned
    err,         \* the exception raised, "none" when there is none
    again,       \* the second application under way: "no", "pipeline", "rejoiner"
    first,       \* what the first application returned
    ends_sentence,  \* what _ends_sentence returned: "unknown", "True" or "False"
    is_heading,     \* what _is_heading returned: "unknown", "True" or "False"
    closes,      \* how many times doc.close() has run in the current call
    entry,       \* the function called: "extract_text" or "process_paper"
    images,      \* the document: the images of each of its pages
    img_index,   \* extract_figures: the image the inner loop is at
    dir,         \* the files of the image directory
    extracted,   \* extract_figures: the paths written so far
    figure_num,  \* extract_figures: the number of the next figure
    figure_paths,  \* process_paper: the figures kept so far
    final_paths,   \* process_paper: the paths of the figures renamed so far
    fig_i,       \* process_paper: how many figures the current loop has handled
    raw_text     \* process_paper: what extract_text_raw returned

vars == <<pages, pc, doc, page_num, text_parts, text, k, lines, i, line, result,
          ret, err, again, first, ends_sentence, is_heading, closes, entry,
          images, img_index, dir, extracted, figure_num, figure_paths,
          final_paths, fig_i, raw_text>>
rejoinVars == <<lines, i, line, result>>
twiceVars == <<again, first>>
classifyVars == <<ends_sentence, is_heading>>
figureVars == <<img_index, dir, extracted, figure_num>>
paperVars == <<entry, images, figureVars, figure_paths, final_paths, fig_i, raw_text>>

\* No figure has been extracted and no figure loop has run.
NoFigures ==
    /\ img_index = 0
    /\ dir = {}
    /\ extracted = <<>>
    /\ figure_num = 1
    /\ figure_paths = <<>>
    /\ final_paths = <<>>
    /\ fig_i = 0
    /\ raw_text = <<>>

Init ==
    /\ pages \in Docs
    /\ pc = "start"
    /\ doc = "none"
    /\ page_num = 0
    /\ text_parts = <<>>
    /\ text = <<>>
    /\ k = 0
    /\ lines = <<>>
    /\ i = 0
    /\ line = <<>>
    /\ result = <<>>
    /\ ret = <<>>
    /\ err = "none"
    /\ again = "no"
    /\ first = <<>>
    /\ ends_sentence = "unknown"
    /\ is_heading = "unknown"
    /\ closes = IF doc = "closed" THEN 1 ELSE 0
    /\ entry = "extract_text"
    /\ images = [n \in 1..Len(pages) |-> <<>>]
    /\ NoFigures

(***************************************************************************)
(* extract_text                                                            *)
(***************************************************************************)
\* Line 124: the path exists.
CheckExists ==
    /\ pc = "start"
    /\ pc' = "open"
    /\ UNCHANGED <<pages, doc, page_num, text_parts, text, k, rejoinVars, ret, err, twiceVars, classifyVars, paperVars, closes>>

\* Lines 124-125: the path does not exist.
NotFound ==
    /\ pc = "start"
    /\ pc' = "raised"
    /\ err' = "FileNotFoundError"
    /\ UNCHANGED <<pages, doc, page_num, text_parts, text, k, rejoinVars, ret, twiceVars, classifyVars, paperVars, closes>>

\* Lines 127-132: fitz.open succeeds.
Open ==
    /\ pc = "open"
    /\ doc' = "open"
    /\ text_parts' = <<>>
    /\ page_num' = 0
    /\ pc' = "pages"
    /\ UNCHANGED <<pages, text, k, rejoinVars, ret, err, twiceVars, classifyVars, paperVars, closes>>

\* Lines 127-130: fitz.open raises.
OpenFails ==
    /\ pc = "open"
    /\ pc' = "raised"
    /\ err' = "RuntimeError"
    /\ UNCHANGED <<pages, doc, page_num, text_parts, text, k, rejoinVars, ret, twiceVars, classifyVars, paperVars, closes>>

\* Lines 134-143: one iteration of the loop over the pages.
ReadPage ==
    /\ pc = "pages"
    /\ page_num < Len(pages)
    /\ LET page == pages[page_num + 1] IN
       text_parts' = IF IsSkipPage(page) THEN text_parts
                     ELSE IF Strip(page) # <<>> THEN Append(text_parts, page)
                     ELSE text_parts
    /\ page_num' = page_num + 1
    /\ UNCHANGED <<pages, pc, doc, text, k, rejoinVars, ret, err, twiceVars, classifyVars, paperVars, closes>>

\* Lines 135-136: what doc[page_num] and page.get_text() can raise is the
\* decoder's choice; nothing in extract_text narrows it.
DecoderErrors == {"RuntimeError", "ValueError"}

\* Lines 135-136 and 144-145: reading the page raises; the finally clause
\* closes the document and the exception leaves extract_text as it is.
ReadFails ==
    /\ pc = "pages"
    /\ page_num < Len(pages)
    /\ doc' = "closed"
    /\ closes' = closes + 1
    /\ pc' = "raised"
    /\ err' \in DecoderErrors
    /\ UNCHANGED <<pages, page_num, text_parts, text, k, rejoinVars, ret, twiceVars, classifyVars, paperVars>>

\* Lines 144-145: the loop is over.
Close ==
    /\ pc = "pages"
    /\ page_num = Len(pages)
    /\ doc' = "closed"
    /\ closes' = closes + 1
    /\ pc' = "join"
    /\ UNCHANGED <<pages, page_num, text_parts, text, k, rejoinVars, ret, err, twiceVars, classifyVars, paperVars>>

\* Lines 147-148: the working buffer, handed to clean_text.
\* Line 147 with the separator left out ("".join).
JoinPagesNoSeparator ==
    /\ pc = "join"
    /\ text' = Join(<<>>, text_parts)
    /\ pc' = "ligatures"
    /\ UNCHANGED <<pages, doc, page_num, text_parts, k, rejoinVars, ret, err, twiceVars, classifyVars, paperVars, closes>>

\* Line 147: the kept page texts joined by "\n".
JoinPages ==
    /\ pc = "join"
    /\ text' = JoinNL(text_parts)
    /\ pc' = "ligatures"
    /\ UNCHANGED <<pages, doc, page_num, text_parts, k, rejoinVars, ret, err, twiceVars, classifyVars, paperVars, closes>>

(***************************************************************************)
(* clean_text                                                              *)
(***************************************************************************)
\* Lines 170-179.
Ligatures ==
    /\ pc = "ligatures"
    /\ text' = FixLigatures(text)
    /\ k' = 0
    /\ pc' = "blocks"
    /\ UNCHANGED <<pages, doc, page_num, text_parts, rejoinVars, ret, err, twiceVars, classifyVars, paperVars, closes>>

\* Lines 182-183: one iteration of the loop over REMOVE_BLOCKS.
RemoveBlock ==
    /\ pc = "blocks"
    /\ text' = ReSub(REMOVE_BLOCKS[k + 1], <<>>, text)
    /\ IF k + 1 < Len(REMOVE_BLOCKS)
       THEN k' = k + 1 /\ pc' = pc
       ELSE k' = 0 /\ pc' = "patterns"
    /\ UNCHANGED <<pages, doc, page_num, text_parts, rejoinVars, ret, err, twiceVars, classifyVars, paperVars, closes>>

\* Lines 186-187: one iteration of the loop over REMOVE_PATTERNS.
RemovePattern ==
    /\ pc = "patterns"
    /\ text' = ReSub(REMOVE_PATTERNS[k + 1], <<>>, text)
    /\ IF k + 1 < Len(REMOVE_PATTERNS)
       THEN k' = k + 1 /\ pc' = pc
       ELSE k' = 0 /\ pc' = "numbers"
    /\ UNCHANGED <<pages, doc, page_num, text_parts, rejoinVars, ret, err, twiceVars, classifyVars, paperVars, closes>>

\* Line 190.
PageNumbers ==
    /\ pc = "numbers"
    /\ text' = RemovePageNumbers(text)
    /\ pc' = "spaces"
    /\ UNCHANGED <<pages, doc, page_num, text_parts, k, rejoinVars, ret, err, twiceVars, classifyVars, paperVars, closes>>

\* Line 193.
Spaces ==
    /\ pc = "spaces"
    /\ text' = CollapseSpaces(text)
    /\ pc' = "newlines"
    /\ UNCHANGED <<pages, doc, page_num, text_parts, k, rejoinVars, ret, err, twiceVars, classifyVars, paperVars, closes>>

\* Line 196.
Newlines ==
    /\ pc = "newlines"
    /\ text' = NormalizeNewlines(text)
    /\ pc' = "rejoin"
    /\ UNCHANGED <<pages, doc, page_num, text_parts, k, rejoinVars, ret, err, twiceVars, classifyVars, paperVars, closes>>

(***************************************************************************)
(* _rejoin_broken_lines (line 199 calls it)                                *)
(***************************************************************************)
\* Lines 219-221.
RejoinEnter ==
    /\ pc = "rejoin"
    /\ lines' = SplitNL(text)
    /\ result' = <<>>
    /\ i' = 0
    /\ line' = <<>>
    /\ pc' = "outer"
    /\ UNCHANGED <<pages, doc, page_num, text_parts, text, k, ret, err, twiceVars, classifyVars, paperVars, closes>>

\* Lines 223-224 without the strip() of line 224.
OuterHeadUnstripped ==
    /\ pc = "outer"
    /\ i < Len(lines)
    /\ line' = lines[i + 1]
    /\ pc' = "inner"
    /\ UNCHANGED <<pages, doc, page_num, text_parts, text, k, lines, i, result, ret, err, twiceVars, classifyVars, paperVars, closes>>

\* Lines 223-224: the outer loop takes the line at the cursor.
OuterHead ==
    /\ pc = "outer"
    /\ i < Len(lines)
    /\ line' = Strip(lines[i + 1])
    /\ pc' = "inner"
    /\ UNCHANGED <<pages, doc, page_num, text_parts, text, k, lines, i, result, ret, err, twiceVars, classifyVars, paperVars, closes>>

\* Lines 227-268: one iteration of the inner loop.
InnerIter ==
    /\ pc = "inner"
    /\ i + 1 < Len(lines)
    /\ LET s == InnerStep(lines, i, line) IN
         /\ i' = s.i
         /\ line' = s.line
         /\ pc' = IF s.cont THEN "inner" ELSE "emit"
    /\ UNCHANGED <<pages, doc, page_num, text_parts, text, k, lines, result, ret, err, twiceVars, classifyVars, paperVars, closes>>

\* Line 227: no line is left to look at.
InnerExit ==
    /\ pc = "inner"
    /\ ~(i + 1 < Len(lines))
    /\ pc' = "emit"
    /\ UNCHANGED <<pages, doc, page_num, text_parts, text, k, rejoinVars, ret, err, twiceVars, classifyVars, paperVars, closes>>

\* Lines 270-271.
Emit ==
    /\ pc = "emit"
    /\ result' = Append(result, line)
    /\ i' = i + 1
    /\ pc' = "outer"
    /\ UNCHANGED <<pages, doc, page_num, text_parts, text, k, lines, line, ret, err, twiceVars, classifyVars, paperVars, closes>>

\* Lines 223 and 273: the outer loop is over.
RejoinReturn ==
    /\ pc = "outer"
    /\ ~(i < Len(lines))
    /\ text' = JoinNL(result)
    /\ pc' = "rejoined"
    /\ UNCHANGED <<pages, doc, page_num, text_parts, k, rejoinVars, ret, err, twiceVars, classifyVars, paperVars, closes>>

(***************************************************************************)
(* clean_text, after the rejoiner                                          *)
(***************************************************************************)
\* clean_text without its line 202.
Newlines2Skipped ==
    /\ pc = "rejoined"
    /\ pc' = "striplines"
    /\ UNCHANGED <<pages, doc, page_num, text_parts, text, k, rejoinVars, ret, err, twiceVars, classifyVars, paperVars, closes>>

\* Line 202.
Newlines2 ==
    /\ pc = "rejoined"
    /\ text' = NormalizeNewlines(text)
    /\ pc' = "striplines"
    /\ UNCHANGED <<pages, doc, page_num, text_parts, k, rejoinVars, ret, err, twiceVars, classifyVars, paperVars, closes>>

\* Lines 205-206.
StripEachLine ==
    /\ pc = "striplines"
    /\ text' = StripLines(text)
    /\ pc' = "strip"
    /\ UNCHANGED <<pages, doc, page_num, text_parts, k, rejoinVars, ret, err, twiceVars, classifyVars, paperVars, closes>>

\* Lines 209-211, and line 148: extract_text returns what clean_text returns.
Return ==
    /\ pc = "strip"
    /\ text' = Strip(text)
    /\ ret' = Strip(text)
    /\ pc' = "done"
    /\ UNCHANGED <<pages, doc, page_num, text_parts, k, rejoinVars, err, twiceVars, classifyVars, paperVars, closes>>

Rejoin ==
    \/ RejoinEnter
    \/ OuterHead
    \/ InnerIter
    \/ InnerExit
    \/ Emit
    \/ RejoinReturn

Next ==
    \/ CheckExists
    \/ NotFound
    \/ Open
    \/ OpenFails
    \/ ReadPage
    \/ ReadFails
    \/ Close
    \/ JoinPages
    \/ Ligatures
    \/ RemoveBlock
    \/ RemovePattern
    \/ PageNumbers
    \/ Spaces
    \/ Newlines
    \/ Rejoin
    \/ Newlines2
    \/ StripEachLine
    \/ Return

Spec == Init /\ [][Next]_vars

(***************************************************************************)
(* _rejoin_broken_lines taken alone, on every text of RejoinInputs.        *)
(***************************************************************************)
InitRejoin ==
    /\ pages = <<>>
    /\ pc = "rejoin"
    /\ doc = "none"
    /\ page_num = 0
    /\ text_parts = <<>>
    /\ text \in RejoinInputs
    /\ k = 0
    /\ lines = <<>>
    /\ i = 0
    /\ line = <<>>
    /\ result = <<>>
    /\ ret = <<>>
    /\ err = "none"
    /\ again = "no"
    /\ first = <<>>
    /\ ends_sentence = "unknown"
    /\ is_heading = "unknown"
    /\ closes = IF doc = "closed" THEN 1 ELSE 0
    /\ entry = "extract_text"
    /\ images = [n \in 1..Len(pages) |-> <<>>]
    /\ NoFigures

(***************************************************************************)
(* The second application.                                                 *)
(***************************************************************************)
\* extract_text is given its own output, one page for each line of it.
Reapply ==
    /\ pc = "done"
    /\ again = "no"
    /\ again' = "pipeline"
    /\ first' = ret
    /\ pages' = SplitNL(ret)
    /\ pc' = "start"
    /\ doc' = "none"
    /\ page_num' = 0
    /\ text_parts' = <<>>
    /\ text' = <<>>
    /\ k' = 0
    /\ lines' = <<>>
    /\ i' = 0
    /\ line' = <<>>
    /\ result' = <<>>
    /\ ret' = <<>>
    /\ closes' = 0
    /\ images' = [n \in 1..Len(SplitNL(ret)) |-> <<>>]
    /\ UNCHANGED <<err, classifyVars, entry, figureVars, figure_paths, final_paths,
                   fig_i, raw_text>>

\* _rejoin_broken_lines is given its own output.
RejoinAgain ==
    /\ pc = "rejoined"
    /\ again = "no"
    /\ again' = "rejoiner"
    /\ first' = text
    /\ pc' = "rejoin"
    /\ UNCHANGED <<pages, doc, page_num, text_parts, text, k, rejoinVars, ret, err,
                   classifyVars, paperVars, closes>>

NextTwice ==
    \/ Next
    \/ Reapply
    \/ RejoinAgain

SpecTwice == Init /\ [][NextTwice]_vars

NextRejoin ==
    \/ Rejoin
    \/ RejoinAgain

SpecRejoin == InitRejoin /\ [][NextRejoin]_vars

(***************************************************************************)
(* The two classifiers taken alone.  Each is called on a line as the       *)
(* rejoiner hands it over: trimmed (lines 224, 228 and 233), and either a  *)
(* physical line or lines put together on lines 256 and 265.  A line is at *)
(* most MaxTokens pieces of TokenVocab.                                    *)
(***************************************************************************)
MaxTokens == 2

TokenVocab ==
    { <<"A","b">>,
      <<" ","C","d">>,
      <<" ","t","h","e">>,
      <<".">>,
      <<",">>,
      <<":">>,
      <<"?">>,
      <<" ","2","0","2","0",")">>,
      <<" ","1","9","9","9","b",")">>,
      <<"1",".">>,
      <<"R","e","s","u","l","t","s">>,
      <<" ","b"," ","c"," ","d">>,
      <<" ","b"," ","c"," ","d"," ","e">>,
      <<" ">> \o [n \in 1..32 |-> "m"],
      [n \in 1..30 |-> "M"] }

ClassifyInputs ==
    {Strip(Join(<<>>, ts)) : ts \in UNION {[1..n -> TokenVocab] : n \in 0..MaxTokens}}

InitClassify ==
    /\ pages = <<>>
    /\ pc = "classify"
    /\ doc = "none"
    /\ page_num = 0
    /\ text_parts = <<>>
    /\ text = <<>>
    /\ k = 0
    /\ lines = <<>>
    /\ i = 0
    /\ line \in ClassifyInputs
    /\ result = <<>>
    /\ ret = <<>>
    /\ err = "none"
    /\ again = "no"
    /\ first = <<>>
    /\ ends_sentence = "unknown"
    /\ is_heading = "unknown"
    /\ closes = IF doc = "closed" THEN 1 ELSE 0
    /\ entry = "extract_text"
    /\ images = [n \in 1..Len(pages) |-> <<>>]
    /\ NoFigures

\* Lines 276-332: _ends_sentence(line) is called and returns.
EndsSentenceCall ==
    /\ pc = "classify"
    /\ ends_sentence = "unknown"
    /\ ends_sentence' = IF EndsSentence(line) THEN "True" ELSE "False"
    /\ UNCHANGED <<pages, pc, doc, page_num, text_parts, text, k, rejoinVars, ret, err,
                   twiceVars, is_heading, paperVars, closes>>

\* Lines 335-362: _is_heading(line) is called and returns.
IsHeadingCall ==
    /\ pc = "classify"
    /\ is_heading = "unknown"
    /\ is_heading' = IF IsHeading(line) THEN "True" ELSE "False"
    /\ UNCHANGED <<pages, pc, doc, page_num, text_parts, text, k, rejoinVars, ret, err,
                   twiceVars, ends_sentence, paperVars, closes>>

NextClassify ==
    \/ EndsSentenceCall
    \/ IsHeadingCall

SpecClassify == InitClassify /\ [][NextClassify]_vars

(***************************************************************************)
(* clean_text taken alone: extract_text at line 148, for a document of one *)
(* page that was kept.  The page is at most MaxChunks pieces of ChunkVocab *)
(* with a newline between two of them.                                     *)
(***************************************************************************)
MaxChunks == 2

ChunkVocab ==
    { <<"a","b",".">>,
      <<"c","d">>,
      <<" ","1","2">>,
      <<"1","2"," ">>,
      <<"H","A","L"," ","I","d",":"," ","x">>,
      <<"A","b","s","t","r","a","c","t">>,
      <<"\n","e","f"," ","g","h">>,
      <<"J","S","T","O","R"," ","i","s"," ","a"," ","n","o","t","-","f","o","r","-",
        "p","r","o","f","i","t"," ","s","e","r","v","i","c","e"," ","t","o">>,
      <<"x"," "," ","y","\t">>,
      <<"r","e","-">>,
      <<"\t","z">>,
      <<"T","I","T","L","E">> }

CleanInputs ==
    {t \in {JoinNL(cs) : cs \in UNION {[1..n -> ChunkVocab] : n \in 1..MaxChunks}} :
        ~IsSkipPage(t) /\ Strip(t) # <<>>}

InitClean ==
    /\ text \in CleanInputs
    /\ pages = <<text>>
    /\ pc = "ligatures"
    /\ doc = "closed"
    /\ page_num = 1
    /\ text_parts = <<text>>
    /\ k = 0
    /\ lines = <<>>
    /\ i = 0
    /\ line = <<>>
    /\ result = <<>>
    /\ ret = <<>>
    /\ err = "none"
    /\ again = "no"
    /\ first = <<>>
    /\ ends_sentence = "unknown"
    /\ is_heading = "unknown"
    /\ closes = IF doc = "closed" THEN 1 ELSE 0
    /\ entry = "extract_text"
    /\ images = [n \in 1..Len(pages) |-> <<>>]
    /\ NoFigures

NextClean ==
    \/ Ligatures
    \/ RemoveBlock
    \/ RemovePattern
    \/ PageNumbers
    \/ Spaces
    \/ Newlines
    \/ Rejoin
    \/ Newlines2
    \/ StripEachLine
    \/ Return

SpecClean == InitClean /\ [][NextClean]_vars

(***************************************************************************)
(* process_paper: the raw text, the figures extracted from the document,   *)
(* the artifacts filtered out and the kept figures renamed.  An image is   *)
(* what doc.extract_image gives for it: "broken" when the call raises,     *)
(* "small" when the bytes are fewer than min_size, and otherwise the "ext" *)
(* entry of the result, "noext" when the result has none.  A path of the   *)
(* image directory is the number and the suffix of figure_<num>.<ext>; a   *)
(* file is a path and the image its bytes come from, <<page, index>>, or   *)
(* <<>> when the write that made it was cut short.                         *)
(***************************************************************************)
MaxImages == 3

ImageKinds == {"broken", "small", "png", "jpeg", "noext"}
ImageSeqs == UNION {[1..n -> ImageKinds] : n \in 0..MaxImages}
\* The text of the pages is of no account here: a page of text and a blank
\* page take turns.
PaperPages ==
    [n \in 1..MaxPages |->
        IF n % 2 = 1
        THEN <<"<fi>"," "," ","a","\n","\n","\n","\n","b","\t","\n","c"," ">>
        ELSE <<" ">>]
PaperDocs == {SubSeq(PaperPages, 1, n) : n \in 0..MaxPages}
\* The ways of cutting m images into p pages.
Cuts(p, m) ==
    {c \in [0..p -> 0..m] :
        c[0] = 0 /\ c[p] = m /\ \A j \in 1..p : c[j - 1] <= c[j]}
Spread(s, c, p) == [j \in 1..p |-> SubSeq(s, c[j - 1] + 1, c[j])]

cleanVars == <<text, k, rejoinVars, ret, twiceVars, classifyVars>>

InitPaper ==
    /\ entry \in {"extract_text", "process_paper"}
    /\ pages \in PaperDocs
    /\ images \in IF entry = "extract_text"
                  THEN {[n \in 1..Len(pages) |-> <<>>]}
                  ELSE UNION {{Spread(s, c, Len(pages)) : c \in Cuts(Len(pages), Len(s))} :
                                 s \in ImageSeqs}
    /\ pc = IF entry = "extract_text" THEN "start" ELSE "raw_start"
    /\ doc = "none"
    /\ closes = 0
    /\ page_num = 0
    /\ text_parts = <<>>
    /\ text = <<>>
    /\ k = 0
    /\ lines = <<>>
    /\ i = 0
    /\ line = <<>>
    /\ result = <<>>
    /\ ret = <<>>
    /\ err = "none"
    /\ again = "no"
    /\ first = <<>>
    /\ ends_sentence = "unknown"
    /\ is_heading = "unknown"
    /\ NoFigures

(***************************************************************************)
(* extract_text_raw                                                        *)
(***************************************************************************)
\* Line 79: the path exists.
RawCheckExists ==
    /\ pc = "raw_start"
    /\ pc' = "raw_open"
    /\ UNCHANGED <<pages, doc, closes, page_num, text_parts, err, cleanVars, paperVars>>

\* Lines 79-80: the path does not exist.
RawNotFound ==
    /\ pc = "raw_start"
    /\ pc' = "raised"
    /\ err' = "FileNotFoundError"
    /\ UNCHANGED <<pages, doc, closes, page_num, text_parts, cleanVars, paperVars>>

\* Lines 82-87: fitz.open succeeds.
RawOpen ==
    /\ pc = "raw_open"
    /\ doc' = "open"
    /\ text_parts' = <<>>
    /\ page_num' = 0
    /\ pc' = "raw_pages"
    /\ UNCHANGED <<pages, closes, err, cleanVars, paperVars>>

\* Lines 82-85: fitz.open raises.
RawOpenFails ==
    /\ pc = "raw_open"
    /\ pc' = "raised"
    /\ err' = "RuntimeError"
    /\ UNCHANGED <<pages, doc, closes, page_num, text_parts, cleanVars, paperVars>>

\* Lines 89-93: one iteration of the loop over the pages.
RawReadPage ==
    /\ pc = "raw_pages"
    /\ page_num < Len(pages)
    /\ LET page == pages[page_num + 1] IN
       text_parts' = IF Strip(page) # <<>> THEN Append(text_parts, page)
                     ELSE text_parts
    /\ page_num' = page_num + 1
    /\ UNCHANGED <<pages, pc, doc, closes, err, cleanVars, paperVars>>

\* Lines 90-91 and 94-95: reading the page raises; the finally clause closes
\* the document and the exception leaves extract_text_raw and process_paper.
RawReadFails ==
    /\ pc = "raw_pages"
    /\ page_num < Len(pages)
    /\ doc' = "closed"
    /\ closes' = closes + 1
    /\ pc' = "raised"
    /\ err' \in DecoderErrors
    /\ UNCHANGED <<pages, page_num, text_parts, cleanVars, paperVars>>

\* Lines 94-95: the loop is over.
RawClose ==
    /\ pc = "raw_pages"
    /\ page_num = Len(pages)
    /\ doc' = "closed"
    /\ closes' = closes + 1
    /\ pc' = "raw_join"
    /\ UNCHANGED <<pages, page_num, text_parts, err, cleanVars, paperVars>>

\* Lines 97-108, and line 226 of process_paper that takes the result.
RawReturn ==
    /\ pc = "raw_join"
    /\ raw_text' = Strip(NormalizeNewlines(CollapseSpaces(FixLigatures(JoinNL(text_parts)))))
    /\ pc' = "fig_start"
    /\ UNCHANGED <<pages, doc, closes, page_num, text_parts, err, cleanVars, entry,
                   images, figureVars, figure_paths, final_paths, fig_i>>

(***************************************************************************)
(* extract_figures                                                         *)
(***************************************************************************)
\* Lines 407-409: the suffix of the file an image is saved to.
ExtOf(image) ==
    LET ext == IF image = "noext" THEN "png" ELSE image IN
    IF ext = "jpeg" THEN "jpg" ELSE ext

\* Lines 412-413: figure_<figure_num>.<ext>.
FigureName(num, ext) == [num |-> num, ext |-> ext]

Exists(d, path) == \E f \in d : f.path = path
FileAt(d, path) == CHOOSE f \in d : f.path = path
\* output_path.write_bytes: the file is made, or made again.
WriteBytes(d, path, content) ==
    {f \in d : f.path # path} \cup {[path |-> path, content |-> content]}
\* img_path.unlink().
Unlink(d, path) == {f \in d : f.path # path}
\* fig_path.rename(new_path), the file at new_path replaced.
RenameFile(d, old, new) ==
    {f \in d : f.path \notin {old, new}}
        \cup {[path |-> new, content |-> FileAt(d, old).content]}

\* Line 230 of process_paper: no figure is asked for.
NoFigureExtraction ==
    /\ pc = "fig_start"
    /\ pc' = "figures"
    /\ UNCHANGED <<pages, doc, closes, page_num, text_parts, err, cleanVars, paperVars>>

\* Lines 232 and 376: process_paper calls extract_figures, a call of its own
\* with a document handle of its own; the path exists.
FigCheckExists ==
    /\ pc = "fig_start"
    /\ doc' = "none"
    /\ closes' = 0
    /\ pc' = "fig_open"
    /\ UNCHANGED <<pages, page_num, text_parts, err, cleanVars, paperVars>>

\* Lines 376-377: the path does not exist any more.
FigNotFound ==
    /\ pc = "fig_start"
    /\ doc' = "none"
    /\ closes' = 0
    /\ pc' = "raised"
    /\ err' = "FileNotFoundError"
    /\ UNCHANGED <<pages, page_num, text_parts, cleanVars, paperVars>>

\* Lines 379-388: the directory is there, fitz.open succeeds.
FigOpen ==
    /\ pc = "fig_open"
    /\ doc' = "open"
    /\ extracted' = <<>>
    /\ figure_num' = 1
    /\ page_num' = 0
    /\ pc' = "fig_pages"
    /\ UNCHANGED <<pages, closes, text_parts, err, cleanVars, entry, images, img_index,
                   dir, figure_paths, final_paths, fig_i, raw_text>>

\* Lines 382-385: fitz.open raises.
FigOpenFails ==
    /\ pc = "fig_open"
    /\ pc' = "raised"
    /\ err' = "RuntimeError"
    /\ UNCHANGED <<pages, doc, closes, page_num, text_parts, cleanVars, paperVars>>

\* Lines 391-393: the images of the next page are listed.
GetImages ==
    /\ pc = "fig_pages"
    /\ page_num < Len(pages)
    /\ img_index' = 0
    /\ pc' = "fig_images"
    /\ UNCHANGED <<pages, doc, closes, page_num, text_parts, err, cleanVars, entry,
                   images, dir, extracted, figure_num, figure_paths, final_paths,
                   fig_i, raw_text>>

\* Lines 392-393 with no finally clause: the exception leaves extract_figures
\* and the document stays open.
GetImagesFailsLeaks ==
    /\ pc = "fig_pages"
    /\ page_num < Len(pages)
    /\ pc' = "raised"
    /\ err' \in DecoderErrors
    /\ UNCHANGED <<pages, doc, closes, page_num, text_parts, cleanVars, paperVars>>

\* Lines 392-393 and 423-424: listing the images raises, outside the inner
\* try; the finally clause closes the document.
GetImagesFails ==
    /\ pc = "fig_pages"
    /\ page_num < Len(pages)
    /\ doc' = "closed"
    /\ closes' = closes + 1
    /\ pc' = "raised"
    /\ err' \in DecoderErrors
    /\ UNCHANGED <<pages, page_num, text_parts, cleanVars, paperVars>>

\* Lines 395-421: one iteration of the loop over the images of the page.  An
\* image that cannot be extracted and a small one are passed over; the write
\* succeeds, or raises with no file made, or raises with the file cut short,
\* and an image whose write raised is passed over too.
SaveImage ==
    /\ pc = "fig_images"
    /\ img_index < Len(images[page_num + 1])
    /\ LET image == images[page_num + 1][img_index + 1]
           output_path == FigureName(figure_num, ExtOf(image))
       IN  IF image \in {"broken", "small"}
           THEN UNCHANGED <<dir, extracted, figure_num>>
           ELSE \E outcome \in {"written", "failed", "cut"} :
                   /\ dir' = CASE outcome = "written" ->
                                    WriteBytes(dir, output_path, <<page_num, img_index>>)
                               [] outcome = "cut" -> WriteBytes(dir, output_path, <<>>)
                               [] OTHER -> dir
                   /\ extracted' = IF outcome = "written"
                                   THEN Append(extracted, output_path) ELSE extracted
                   /\ figure_num' = IF outcome = "written"
                                    THEN figure_num + 1 ELSE figure_num
    /\ img_index' = img_index + 1
    /\ UNCHANGED <<pages, pc, doc, closes, page_num, text_parts, err, cleanVars, entry,
                   images, figure_paths, final_paths, fig_i, raw_text>>

\* Lines 391 and 395: the images of the page are done.
NextPage ==
    /\ pc = "fig_images"
    /\ img_index = Len(images[page_num + 1])
    /\ page_num' = page_num + 1
    /\ pc' = "fig_pages"
    /\ UNCHANGED <<pages, doc, closes, text_parts, err, cleanVars, paperVars>>

\* Lines 423-426, and lines 230-236 of process_paper: the loop is over, the
\* document is closed and the paths written are returned.
FigClose ==
    /\ pc = "fig_pages"
    /\ page_num = Len(pages)
    /\ doc' = "closed"
    /\ closes' = closes + 1
    /\ figure_paths' = <<>>
    /\ fig_i' = 0
    /\ pc' = "filter"
    /\ UNCHANGED <<pages, page_num, text_parts, err, cleanVars, entry, images,
                   figureVars, final_paths, raw_text>>

(***************************************************************************)
(* process_paper, lines 229-258                                            *)
(***************************************************************************)
\* What is_paper_figure does with an image: it answers, or it raises.
Verdicts == {"figure", "artifact", "error"}

\* Lines 236-245: one image is classified.  A figure is kept; an artifact is
\* deleted, and kept when unlink raises; an image whose classification raises
\* is kept.
FilterImage ==
    /\ pc = "filter"
    /\ fig_i < Len(extracted)
    /\ LET img_path == extracted[fig_i + 1] IN
       \E verdict \in Verdicts, unlinked \in BOOLEAN :
           IF verdict = "artifact" /\ unlinked /\ Exists(dir, img_path)
           THEN /\ dir' = Unlink(dir, img_path)
                /\ UNCHANGED figure_paths
           ELSE /\ figure_paths' = Append(figure_paths, img_path)
                /\ UNCHANGED dir
    /\ fig_i' = fig_i + 1
    /\ UNCHANGED <<pages, pc, doc, closes, page_num, text_parts, err, cleanVars, entry,
                   images, img_index, extracted, figure_num, final_paths, raw_text>>

\* Lines 236 and 248: every image is classified.
FilterDone ==
    /\ pc = "filter"
    /\ fig_i = Len(extracted)
    /\ final_paths' = <<>>
    /\ fig_i' = 0
    /\ pc' = "rename"
    /\ UNCHANGED <<pages, doc, closes, page_num, text_parts, err, cleanVars, entry,
                   images, figureVars, figure_paths, raw_text>>

\* Lines 249-250 with the count started at 2.
NewPathFromTwo(n, fig_path) == FigureName(n + 1, fig_path.ext)
\* Lines 250-251: the name the i-th kept figure is given.
NewPath(n, fig_path) == FigureName(n, fig_path.ext)

\* Lines 249-254: one kept figure is renamed.  rename raises when the figure
\* is not there; when a file has the new name already it is replaced, or,
\* where the platform does not replace, rename raises.
RenameFigure ==
    /\ pc = "rename"
    /\ fig_i < Len(figure_paths)
    /\ LET fig_path == figure_paths[fig_i + 1]
           new_path == NewPath(fig_i + 1, fig_path)
       IN  IF fig_path = new_path
           THEN /\ final_paths' = Append(final_paths, new_path)
                /\ fig_i' = fig_i + 1
                /\ UNCHANGED <<dir, pc, err>>
           ELSE IF ~Exists(dir, fig_path)
           THEN /\ pc' = "raised"
                /\ err' = "FileNotFoundError"
                /\ UNCHANGED <<dir, final_paths, fig_i>>
           ELSE \/ /\ dir' = RenameFile(dir, fig_path, new_path)
                   /\ final_paths' = Append(final_paths, new_path)
                   /\ fig_i' = fig_i + 1
                   /\ UNCHANGED <<pc, err>>
                \/ /\ Exists(dir, new_path)
                   /\ pc' = "raised"
                   /\ err' = "FileExistsError"
                   /\ UNCHANGED <<dir, final_paths, fig_i>>
    /\ UNCHANGED <<pages, doc, closes, page_num, text_parts, cleanVars, entry, images,
                   img_index, extracted, figure_num, figure_paths, raw_text>>

\* Lines 249 and 255-257: the figures kept are the renamed ones.
RenameDone ==
    /\ pc = "rename"
    /\ fig_i = Len(figure_paths)
    /\ figure_paths' = final_paths
    /\ pc' = "figures"
    /\ UNCHANGED <<pages, doc, closes, page_num, text_parts, err, cleanVars, entry,
                   images, figureVars, final_paths, fig_i, raw_text>>

NextPaper ==
    \/ Next
    \/ RawCheckExists
    \/ RawNotFound
    \/ RawOpen
    \/ RawOpenFails
    \/ RawReadPage
    \/ RawReadFails
    \/ RawClose
    \/ RawReturn
    \/ NoFigureExtraction
    \/ FigCheckExists
    \/ FigNotFound
    \/ FigOpen
    \/ FigOpenFails
    \/ GetImages
    \/ GetImagesFails
    \/ SaveImage
    \/ NextPage
    \/ FigClose
    \/ FilterImage
    \/ FilterDone
    \/ RenameFigure
    \/ RenameDone

SpecPaper == InitPaper /\ [][NextPaper]_vars

(***************************************************************************)
(* The properties.                                                         *)
(***************************************************************************)
\* s occurs in txt.
Contains(txt, s) ==
    \E q \in 0..(Len(txt) - Len(s)) : \A j \in 1..Len(s) : txt[q + j] = s[j]
IsBlank(l) == Strip(l) = <<>>
NonBlank(ls) == SelectSeq(ls, LAMBDA l : ~IsBlank(l))

\* C1: a physical line that is a heading is never concatenated with a
\* neighbour.  While it is the current line the inner loop leaves it as it is
\* and stops; a line appended to the current line is never a heading; the
\* current line starts as the trimmed physical line at the cursor and is
\* emitted as it stands; and when the rejoiner returns, every physical line
\* that is a heading is one of the logical lines.
C1_HeadingPreserved ==
    [][ /\ (pc = "inner" /\ IsHeading(line)) => (line' = line /\ pc' = "emit")
        /\ (pc = "inner" /\ line' # line) => ~IsHeading(Strip(lines[i' + 1]))
        /\ (pc = "outer" /\ pc' = "inner") => line' = Strip(lines[i + 1])
        /\ (pc = "emit") => result' = Append(result, line)
        /\ (pc = "outer" /\ pc' = "rejoined") =>
              \A j \in 1..Len(lines) :
                  IsHeading(Strip(lines[j])) =>
                      \E r \in 1..Len(result) : result[r] = Strip(lines[j])
      ]_vars

\* A heading between two lines of prose, the first of which does not end a
\* sentence, has been emitted on its own.
C1_Witness ==
    /\ pc = "rejoined"
    /\ Len(lines) = 3
    /\ IsHeading(Strip(lines[2]))
    /\ ~IsBlank(lines[1]) /\ ~IsHeading(Strip(lines[1])) /\ ~EndsSentence(Strip(lines[1]))
    /\ ~IsBlank(lines[3]) /\ ~IsHeading(Strip(lines[3]))
    /\ result = <<Strip(lines[1]), Strip(lines[2]), Strip(lines[3])>>

\* C3 as stated: whenever the current line L does not end a sentence and is
\* followed by one blank line and then a non-empty line A that starts with a
\* lower-case letter and is not a heading, the iteration joins A to L across
\* the blank line and goes on extending.
C3_BridgeAlways ==
    [][ (/\ pc = "inner"
         /\ i + 2 < Len(lines)
         /\ IsBlank(lines[i + 2])
         /\ ~IsBlank(lines[i + 3])
         /\ IsLower(Strip(lines[i + 3])[1])
         /\ ~IsHeading(Strip(lines[i + 3]))
         /\ ~EndsSentence(line))
        => /\ pc' = "inner"
           /\ i' = i + 2
           /\ \/ line' = line \o <<" ">> \o Strip(lines[i + 3])
              \/ line' = SubSeq(line, 1, Len(line) - 1) \o Strip(lines[i + 3])
      ]_vars

\* C3, amended: the same, for a current line L that is not a heading.
C3_BridgeUnlessHeading ==
    [][ (/\ pc = "inner"
         /\ i + 2 < Len(lines)
         /\ IsBlank(lines[i + 2])
         /\ ~IsBlank(lines[i + 3])
         /\ IsLower(Strip(lines[i + 3])[1])
         /\ ~IsHeading(Strip(lines[i + 3]))
         /\ ~EndsSentence(line)
         /\ ~IsHeading(line))
        => /\ pc' = "inner"
           /\ i' = i + 2
           /\ line' = IF IsWordBreak(line)
                      THEN SubSeq(line, 1, Len(line) - 1) \o Strip(lines[i + 3])
                      ELSE line \o <<" ">> \o Strip(lines[i + 3])
      ]_vars

\* Two lines of prose have been joined across a blank line.
C3_Witness ==
    /\ pc = "rejoined"
    /\ Len(lines) = 3
    /\ IsBlank(lines[2])
    /\ ~IsBlank(lines[1]) /\ ~IsHeading(Strip(lines[1])) /\ ~IsWordBreak(Strip(lines[1]))
    /\ result = << Strip(lines[1]) \o <<" ">> \o Strip(lines[3]) >>

\* C4: when the current line ends with a hyphen that no space precedes, the
\* next line is not blank and neither is a heading, the iteration replaces the
\* current line by itself without the hyphen followed at once by the next
\* line, and goes on extending.
C4_HyphenJoin ==
    [][ (/\ pc = "inner"
         /\ i + 1 < Len(lines)
         /\ ~IsBlank(lines[i + 2])
         /\ Len(line) > 0 /\ line[Len(line)] = "-"
         /\ (Len(line) > 1 => line[Len(line) - 1] # " ")
         /\ ~IsHeading(line)
         /\ ~IsHeading(Strip(lines[i + 2])))
        => /\ line' = SubSeq(line, 1, Len(line) - 1) \o Strip(lines[i + 2])
           /\ i' = i + 1
           /\ pc' = "inner"
      ]_vars

\* "re-" and the line after it have been joined with nothing between them.
C4_Witness ==
    /\ pc = "rejoined"
    /\ Len(lines) = 2
    /\ lines[1] = <<"r", "e", "-">>
    /\ ~IsBlank(lines[2])
    /\ result = << <<"r", "e">> \o Strip(lines[2]) >>

\* What is left to do: the rank of the stage the call is at, and the
\* iterations the stage still has to make.
Measure ==
    LET rank == [s \in {"done", "raised"} |-> 0] @@
                ("strip" :> 1) @@ ("striplines" :> 2) @@ ("rejoined" :> 3) @@
                [s \in {"outer", "inner", "emit"} |-> 4] @@
                ("rejoin" :> 5) @@ ("newlines" :> 6) @@ ("spaces" :> 7) @@
                ("numbers" :> 8) @@ ("patterns" :> 9) @@ ("blocks" :> 10) @@
                ("ligatures" :> 11) @@ ("join" :> 12) @@ ("pages" :> 13) @@
                ("open" :> 14) @@ ("start" :> 15)
        left == CASE pc = "pages" -> Len(pages) - page_num
                  [] pc = "blocks" -> Len(REMOVE_BLOCKS) - k
                  [] pc = "patterns" -> Len(REMOVE_PATTERNS) - k
                  [] pc = "outer" -> 3 * (Len(lines) - i) + 2
                  [] pc = "inner" -> 3 * (Len(lines) - i) + 1
                  [] pc = "emit" -> 3 * (Len(lines) - i)
                  [] OTHER -> 0
    IN  1000 * rank[pc] + left

\* C9: the call ends.  Every step of it brings down a measure that is a
\* natural number, so it takes no more steps than the measure it starts with,
\* and it stops only where it has returned or raised.  In the rejoiner an
\* iteration of the inner loop that goes on extending moves the cursor
\* forward, and so does every iteration of the outer loop; the cursor never
\* moves back; and the lines emitted are never more than the cursor, which is
\* never more than the number of physical lines.
C9_Terminates ==
    [][ /\ (pc = "inner" /\ pc' = "inner") => i' > i
        /\ (pc = "emit") => i' > i
        /\ i' >= i
        /\ Len(result') <= i' /\ i' <= Len(lines')
        /\ Measure' < Measure /\ Measure' >= 0
        /\ (pc' \notin {"done", "raised"}) =>
              \/ pc' \in {"start", "open", "join", "ligatures", "numbers", "spaces",
                          "newlines", "rejoin", "outer", "inner", "emit", "rejoined",
                          "striplines", "strip"}
              \/ pc' = "pages" /\ doc' = "open" /\ page_num' <= Len(pages')
              \/ pc' = "blocks" /\ k' < Len(REMOVE_BLOCKS)
              \/ pc' = "patterns" /\ k' < Len(REMOVE_PATTERNS)
      ]_vars

\* A call has returned after the rejoiner joined lines.
C9_Witness ==
    /\ pc = "done"
    /\ Len(lines) >= 3
    /\ Len(result) < Len(lines)
    /\ i = Len(lines)

\* The page text holds one of the marker phrases of SKIP_PAGE_PATTERNS, in any
\* letter case.
HasMarker(page) ==
    LET low == LowerStr(page) IN
    \E n \in 1..Len(SKIP_PAGE_PATTERNS) :
        Contains(low, LowerStr(SKIP_PAGE_PATTERNS[n][1].s))
Kept(page) == ~HasMarker(page) /\ ~IsBlank(page)

\* C6: a page that holds a marker phrase, in any letter case, is dropped in
\* full.  While the pages are read and when the loop is over, the texts kept
\* are those of the pages read so far that hold no marker and are not blank,
\* in their order, and the working buffer handed to clean_text is these
\* texts joined by newlines.
C6_PageFilterExact ==
    /\ pc \in {"pages", "join"} =>
          text_parts = SelectSeq(SubSeq(pages, 1, page_num), Kept)
    /\ pc = "ligatures" => text = JoinNL(SelectSeq(pages, Kept))

\* A page with real content and a marker phrase in another letter case has
\* been dropped, and the other page of the document has been returned.
C6_Witness ==
    /\ pc = "done"
    /\ Len(pages) = 2
    /\ HasMarker(pages[1])
    /\ ~Contains(pages[1], SKIP_PAGE_PATTERNS[1][1].s)
    /\ Contains(pages[1], <<"D", "o", ".">>)
    /\ ret = pages[2]
    /\ ret # <<>>

\* C10: when the document has no pages, or every page holds a marker phrase
\* or is blank, the call that reads all of it keeps no text, hands the empty
\* string to clean_text, raises nothing and returns the empty string.
C10_EmptyResult ==
    (/\ pc \in {"join", "ligatures", "done"}
     /\ \A n \in 1..Len(pages) : HasMarker(pages[n]) \/ IsBlank(pages[n]))
    => /\ text_parts = <<>>
       /\ text = <<>>
       /\ err = "none"
       /\ pc = "done" => ret = <<>>

\* A document of a marker page and a blank page has been read to its end.
C10_Witness ==
    /\ pc = "done"
    /\ Len(pages) = 2
    /\ \E n \in 1..2 : HasMarker(pages[n]) /\ IsBlank(pages[3 - n])
    /\ ret = <<>>
    /\ err = "none"

\* C8: the text returned has no three newlines in a row, no two blank lines
\* in a row (a line of whitespace is blank), and no blank line at its start
\* or at its end.
C8_CleanedShape ==
    pc = "done" =>
        LET ls == SplitNL(ret) IN
        /\ ~Contains(ret, <<"\n", "\n", "\n">>)
        /\ \A n \in 1..(Len(ls) - 1) : ~(IsBlank(ls[n]) /\ IsBlank(ls[n + 1]))
        /\ ret # <<>> => ~IsBlank(ls[1]) /\ ~IsBlank(ls[Len(ls)])

\* A text with two lines of whitespace between two paragraphs, and one with
\* blank lines at its start, have been returned with one blank line kept.
C8_Witness ==
    /\ pc = "done"
    /\ Contains(ret, <<"\n", "\n">>)
    /\ \E n \in 1..Len(pages) :
          \/ Contains(pages[n], <<"\n", " ", "\n", "\t", "\n">>)
          \/ pages[n][1] = "\n"

\* The working buffer is two lines that no pattern of the stripper touches,
\* with four newlines or more between them.
FarApart ==
    LET raw == JoinNL(text_parts)
        ls == SplitNL(raw) IN
    /\ Len(ls) >= 5
    /\ ~IsBlank(ls[1]) /\ ~IsBlank(ls[Len(ls)])
    /\ \A n \in 2..(Len(ls) - 1) : ls[n] = <<>>
    /\ \A n \in 1..Len(REMOVE_BLOCKS) : ReSub(REMOVE_BLOCKS[n], <<>>, raw) = raw
    /\ \A n \in 1..Len(REMOVE_PATTERNS) : ReSub(REMOVE_PATTERNS[n], <<>>, raw) = raw
    /\ RemovePageNumbers(raw) = raw
\* The two lines, as the passes before the rejoiner leave them.
Before == Strip(CollapseSpaces(FixLigatures(SplitNL(JoinNL(text_parts))[1])))
After ==
    LET ls == SplitNL(JoinNL(text_parts)) IN
    Strip(CollapseSpaces(FixLigatures(ls[Len(ls)])))

\* C7 as stated: two pieces of content with four newlines or more between
\* them are returned with exactly one blank line between them.
C7_OneBlankLine ==
    (pc = "done" /\ FarApart) => ret = Before \o <<"\n", "\n">> \o After

\* C7, amended: they are returned with exactly one blank line between them
\* unless the rejoiner bridges the gap, the line before not ending a sentence
\* and the line after starting in lower case and being no heading; then they
\* are returned joined into one line, or on two lines with no blank line
\* between them when the line before is a heading.
C7_OneBlankLineUnlessBridged ==
    (pc = "done" /\ FarApart) =>
        ret = IF ~Bridges(Before, After) THEN Before \o <<"\n", "\n">> \o After
              ELSE IF IsHeading(Before) THEN Before \o <<"\n">> \o After
              ELSE IF IsWordBreak(Before)
                   THEN SubSeq(Before, 1, Len(Before) - 1) \o After
              ELSE Before \o <<" ">> \o After

\* Two lines four newlines apart have been returned one blank line apart.
C7_Witness ==
    /\ pc = "done"
    /\ FarApart
    /\ ~Bridges(Before, After)
    /\ ret = Before \o <<"\n", "\n">> \o After

\* C5 as stated: no pattern of the stripper matches text that has been
\* through the stripper, so that a second run of it changes nothing.
C5_StripperIdempotent ==
    pc = "spaces" =>
        /\ \A n \in 1..Len(REMOVE_BLOCKS) : ReSub(REMOVE_BLOCKS[n], <<>>, text) = text
        /\ \A n \in 1..Len(REMOVE_PATTERNS) : ReSub(REMOVE_PATTERNS[n], <<>>, text) = text
        /\ RemovePageNumbers(text) = text

C11_FailuresReported ==
    pc = "raised" =>
        /\ err \in {"FileNotFoundError", "RuntimeError"}
        /\ ret = <<>>

\* The numbers of the pages among the first n that the page filter lets
\* through and that are not blank, in ascending order.
RECURSIVE Survivors(_, _)
Survivors(ps, n) ==
    IF n = 0 THEN <<>>
    ELSE IF ~IsSkipPage(ps[n]) /\ ~IsBlank(ps[n])
         THEN Append(Survivors(ps, n - 1), n)
         ELSE Survivors(ps, n - 1)

\* The place in the joined text where the j-th piece starts (0-based), when
\* one character stands between consecutive pieces.
RECURSIVE StartOf(_, _)
StartOf(parts, j) ==
    IF j = 1 THEN 0 ELSE StartOf(parts, j - 1) + Len(parts[j - 1]) + 1

\* C12: the pages are read one by one in their order, each classified once
\* (the page number goes up by one per page, and the loop ends only when it
\* has reached the page count); a page is appended to the kept texts exactly
\* when it survives, and nothing else changes them.  The working buffer is
\* the kept texts in page order, each once, with exactly one newline between
\* two consecutive ones.
C12_PageOrder ==
    [][/\ (pc = "pages" /\ pc' = "pages") =>
            /\ page_num' = page_num + 1
            /\ text_parts' = [j \in 1..Len(Survivors(pages, page_num'))
                                |-> pages[Survivors(pages, page_num')[j]]]
            /\ \/ text_parts' = text_parts
               \/ text_parts' = Append(text_parts, pages[page_num'])
       /\ (pc = "pages" /\ pc' = "join") =>
            /\ page_num = Len(pages)
            /\ text_parts' = text_parts
       /\ (pc = "join" /\ pc' = "ligatures") =>
            LET n == Len(text_parts) IN
            /\ text_parts' = text_parts
            /\ n = 0 => text' = <<>>
            /\ n > 0 =>
                 /\ Len(text') = StartOf(text_parts, n) + Len(text_parts[n])
                 /\ \A j \in 1..n : \A m \in 1..Len(text_parts[j]) :
                        text'[StartOf(text_parts, j) + m] = text_parts[j][m]
                 /\ \A j \in 2..n : text'[StartOf(text_parts, j)] = "\n"
      ]_vars

\* The first and the last page of the document survived and differ: the
\* buffer is the first, one newline, and the last.
C12_Witness ==
    /\ pc = "ligatures"
    /\ Len(pages) >= 2
    /\ Len(text_parts) = 2
    /\ text_parts[1] # text_parts[2]
    /\ text = text_parts[1] \o <<"\n">> \o text_parts[2]
    /\ text_parts[1] = pages[1]
    /\ text_parts[2] = pages[Len(pages)]

(***************************************************************************)
(* C13. The output of every stage of clean_text, and the text it returns,  *)
(* holds no carriage return, whatever the input.  No line of clean_text    *)
(* converts or removes "\r": one that ends a line goes when the lines are  *)
(* stripped, one inside a line stays.                                      *)
(***************************************************************************)
C13_NoCarriageReturn ==
    /\ pc \in {"blocks", "patterns", "numbers", "spaces", "newlines", "rejoin",
               "rejoined", "striplines", "strip", "done"} =>
          \A n \in 1..Len(text) : text[n] # "\r"
    /\ pc = "done" => \A n \in 1..Len(ret) : ret[n] # "\r"

NoGlyph(txt) == \A n \in 1..Len(txt) : txt[n] \notin Ligature

Expansion(c) ==
    CASE c = "<fi>" -> <<"f", "i">>
      [] c = "<fl>" -> <<"f", "l">>
      [] c = "<ff>" -> <<"f", "f">>
      [] c = "<ffi>" -> <<"f", "f", "i">>
      [] c = "<ffl>" -> <<"f", "f", "l">>
      [] OTHER -> <<c>>

\* The number of characters the first n characters of txt expand to.
ExpandedLen(txt, n) ==
    n + Cardinality({m \in 1..n : txt[m] \in {"<fi>", "<fl>", "<ff>"}})
      + 2 * Cardinality({m \in 1..n : txt[m] \in {"<ffi>", "<ffl>"}})

\* out is txt with every glyph written out and every other character as it was.
IsExpansionOf(out, txt) ==
    /\ Len(out) = ExpandedLen(txt, Len(txt))
    /\ \A n \in 1..Len(txt) : \A j \in 1..Len(Expansion(txt[n])) :
          out[ExpandedLen(txt, n - 1) + j] = Expansion(txt[n])[j]

\* The orders in which the five substitutions can be made.
Orders == {f \in [1..Len(ligatures) -> 1..Len(ligatures)] :
              \A a, b \in 1..Len(ligatures) : a # b => f[a] # f[b]}

\* The substitutions made in the order f, the first n of them.
RECURSIVE FixInOrder(_, _, _)
FixInOrder(txt, f, n) ==
    IF n = 0 THEN txt
    ELSE Replace(FixInOrder(txt, f, n - 1), ligatures[f[n]][1], ligatures[f[n]][2])

\* C17: the ligature pass of lines 178-179 leaves no glyph in the text; its
\* output is its input with every glyph replaced by its ASCII expansion and
\* every other character unchanged; making the five substitutions in any
\* other order gives the same text; and the pass applied to its own output
\* changes nothing.
C17_LigatureFixer ==
    [][pc = "ligatures" =>
         /\ NoGlyph(text')
         /\ IsExpansionOf(text', text)
         /\ \A f \in Orders : FixInOrder(text, f, Len(ligatures)) = text'
         /\ FixLigatures(text') = text'
      ]_vars

\* The pass has run on a text that held all five glyphs, two of them side
\* by side, and has made it longer.
C17_Witness ==
    /\ pc = "blocks"
    /\ k = 0
    /\ Len(text_parts) = 1
    /\ \A g \in Ligature : \E n \in 1..Len(text_parts[1]) : text_parts[1][n] = g
    /\ Contains(text_parts[1], <<"<ff>", "<ffl>">>)
    /\ Contains(text, <<"f", "f", "f", "f", "l">>)
    /\ Len(text) > Len(text_parts[1])

HorizontalWS == {" ", "\t"}
NoSpaceRun(txt) ==
    \A n \in 1..Len(txt) - 1 : ~(txt[n] \in HorizontalWS /\ txt[n + 1] \in HorizontalWS)

C19_MergeGuard ==
    [][ /\ (pc = "inner" /\ line' # line) =>
              LET appended == Strip(lines[i' + 1])
                  hyphen == /\ line[Len(line)] = "-"
                            /\ ~(Len(line) >= 2 /\ line[Len(line) - 1] = " ")
              IN  /\ i' \in {i + 1, i + 2}
                  /\ appended # <<>>
                  /\ ~IsHeading(appended)
                  /\ line # <<>>
                  /\ ~IsHeading(line)
                  /\ ~EndsSentence(line)
                  /\ line' = IF hyphen
                             THEN SubSeq(line, 1, Len(line) - 1) \o appended
                             ELSE line \o <<" ">> \o appended
        /\ (pc = "inner") =>
              \/ line' = line /\ i' = i /\ pc' = "emit"
              \/ ~EndsSentence(line)
        /\ (pc = "emit") =>
              (result' = Append(result, line) /\ i' = i + 1 /\ pc' = "outer")
      ]_vars

\* A line has been extended by one space and the next line, the merged line
\* ends a sentence and is no heading, and the line after it, which is not
\* blank and no heading, has been emitted on its own.
C19_Witness ==
    /\ pc = "rejoined"
    /\ Len(lines) = 3
    /\ \A n \in 1..3 : ~IsBlank(lines[n]) /\ ~IsHeading(Strip(lines[n]))
    /\ ~EndsSentence(Strip(lines[1]))
    /\ EndsSentence(Strip(lines[2]))
    /\ ~IsHeading(Strip(lines[1]) \o <<" ">> \o Strip(lines[2]))
    /\ result = <<Strip(lines[1]) \o <<" ">> \o Strip(lines[2]), Strip(lines[3])>>

\* The characters of l at the places p, p+1, ... that are in S: how many.
Run(l, p, S) ==
    Max({n \in 0..(Len(l) - p + 1) : \A j \in 0..(n - 1) : l[p + j] \in S})

\* l ends with four digits, then at most one of a..z, then ")".
EndsWithYear(l) ==
    LET n == Len(l) IN
    /\ n >= 5
    /\ l[n] = ")"
    /\ \/ \A j \in 1..4 : l[n - j] \in Digit
       \/ /\ n >= 6
          /\ l[n - 1] \in Lower
          /\ \A j \in 2..5 : l[n - j] \in Digit

\* The lines the spec says end a sentence.
SentenceEnd(l) ==
    \/ l = <<>>
    \/ LET t == Max({0} \cup {n \in 1..Len(l) : l[n] \notin WS}) IN
       t >= 1 /\ l[t] \in {".", "!", "?"}
    \/ EndsWithYear(l)
    \/ l # <<>> /\ l[Len(l)] = "." /\ EndsWithYear(SubSeq(l, 1, Len(l) - 1))
    \/ l # <<>> /\ l[Len(l)] = ":"

\* C15: called on a line as the rejoiner hands it over, _ends_sentence
\* returns True for the empty line; for a line that ends with ".", "!" or
\* "?", whitespace after it or not; for one that ends with a four-digit
\* year, at most one lower-case letter and ")", a period after it or not;
\* and for one that ends in a colon.  It returns False for every other line:
\* neither a continuation word at the end nor the length of the line makes it
\* return True.
C15_EndsSentenceExact ==
    /\ ends_sentence = "True" => SentenceEnd(line)
    /\ ends_sentence = "False" => ~SentenceEnd(line)

\* _ends_sentence has returned False for a line of sixty characters or more
\* that ends in no continuation word and no punctuation.
C15_Witness ==
    /\ ends_sentence = "False"
    /\ Len(line) >= 60
    /\ ~Continues(line)
    /\ line[Len(line)] \in Letter

\* The four rules of the spec for a heading.
NumberedRule(l) ==
    LET d1 == Run(l, 1, Digit)
        p1 == 1 + d1
        p2 == IF p1 <= Len(l) /\ l[p1] = "." THEN p1 + 1 ELSE p1
        p3 == p2 + Run(l, p2, Digit)
        p4 == IF p3 <= Len(l) /\ l[p3] = "." THEN p3 + 1 ELSE p3
        w == Run(l, p4, WS)
    IN  /\ d1 >= 1
        /\ w >= 1
        /\ p4 + w <= Len(l)
        /\ l[p4 + w] \in Upper
UpperCaseRule(l) ==
    /\ \E n \in 1..Len(l) : l[n] \in Upper
    /\ \A n \in 1..Len(l) : l[n] \notin Lower \cup Ligature
    /\ Len(l) < 60
VocabularyRule(l) ==
    /\ Split(l) # <<>>
    /\ LET t == LowerStr(Split(l)[1]) IN
       \E word \in heading_words :
           /\ Len(t) >= Len(word)
           /\ SubSeq(t, 1, Len(word)) = word
           /\ \A j \in (Len(word) + 1)..Len(t) : t[j] \in {".", ":"}
    /\ Len(l) < 40
ShortRule(l) ==
    /\ Len(l) < 30
    /\ l[1] \in Upper
    /\ l[Len(l)] # ","
    /\ Len(Split(l)) <= 4

\* C16: called on a line as the rejoiner hands it over, _is_heading returns
\* False for the empty line and, for any other line, True exactly when one
\* of the four rules holds: the line starts with a number, or two with a dot
\* between them, a dot after it or not, then whitespace and an upper-case
\* letter; the line has no lower-case letter, has an upper-case one, and is
\* shorter than 60; its first word, lower-cased and without trailing "."
\* and ":", is in the heading vocabulary and the line is shorter than 40;
\* the line is shorter than 30, starts with an upper-case letter, does not
\* end in a comma and has at most four words.
C16_IsHeadingExact ==
    LET rules == /\ line # <<>>
                 /\ \/ NumberedRule(line)
                    \/ UpperCaseRule(line)
                    \/ VocabularyRule(line)
                    \/ ShortRule(line)
    IN  /\ is_heading = "True" => rules
        /\ is_heading = "False" => ~rules

\* _is_heading has returned True for a line that only the vocabulary rule
\* makes a heading: it has more than four words.
C16_Witness ==
    /\ is_heading = "True"
    /\ Len(Split(line)) > 4
    /\ VocabularyRule(line)
    /\ ~NumberedRule(line)
    /\ ~UpperCaseRule(line)
    /\ ~ShortRule(line)

\* A line whose only characters that are not whitespace are digits.
IsNumericLine(l) ==
    /\ \E n \in 1..Len(l) : l[n] \in Digit
    /\ \A n \in 1..Len(l) : l[n] \in Digit \cup WS

(***************************************************************************)
(* C21. The pass of line 190 removes every line of the working buffer that *)
(* holds nothing but digits and whitespace, one that starts with spaces    *)
(* included: no such line is left after the pass, and when every digit of  *)
(* the input stands on such a line the cleaned text holds no digit.        *)
(* r"^\d+\s*$" wants the digits at the start of the line: " 12" is left in *)
(* place, trimmed by the rejoiner and joined to its neighbours.            *)
(***************************************************************************)
C21_NumericLinesRemoved ==
    /\ pc = "spaces" =>
          \A n \in 1..Len(SplitNL(text)) : ~IsNumericLine(SplitNL(text)[n])
    /\ (/\ pc = "done"
        /\ \A n \in 1..Len(SplitNL(pages[1])) :
              LET l == SplitNL(pages[1])[n] IN
              IsNumericLine(l) \/ \A m \in 1..Len(l) : l[m] \notin Digit)
       => \A n \in 1..Len(ret) : ret[n] \notin Digit

\* The anchors of the five block patterns with the letter case they are
\* written in on lines 20-25.
AnchorsAsWritten ==
    << << <<Lit(<<"F","r","o","m"," ","s","e","d","i","m","e","n","t","a","r","y">>)>>,
          <<Lit(<<"A","b","s","t","r","a","c","t">>)>>,
          <<Lit(<<"I","n","t","r","o","d","u","c","t","i","o","n">>)>>,
          <<Lit(<<"\n","\n">>), One(Upper), One(Lower)>> >>,
       << <<Lit(<<"A","B","S","T","R","A","C","T">>)>>,
          <<Lit(<<"A","b","s","t","r","a","c","t">>)>>,
          <<Lit(<<"I","n","t","r","o","d","u","c","t","i","o","n">>)>> >>,
       << <<Lit(<<"A","B","S","T","R","A","C","T">>)>>,
          <<Lit(<<"A","b","s","t","r","a","c","t">>)>>,
          <<Rep(Upper, FALSE, 2, Inf, FALSE)>> >>,
       << <<Lit(<<"\n","\n">>)>> >>,
       << <<Lit(<<"\n","\n">>)>>,
          <<Lit(<<"\n">>), One(Upper)>> >> >>

\* The n-th block pattern, stopping at its anchors as they are written.
BlockAsWritten(n) ==
    SubSeq(REMOVE_BLOCKS[n], 1, Len(REMOVE_BLOCKS[n]) - 1)
        \o <<Look(AnchorsAsWritten[n])>>

(***************************************************************************)
(* C22. Each block pattern deletes from the start of its marker up to the  *)
(* nearest anchor after it, the anchors being as they are written, with    *)
(* their capitals: the anchor stays, and nothing is deleted when no anchor *)
(* follows the marker.                                                     *)
(* Line 183 passes re.IGNORECASE: [A-Z] and [a-z] match any letter and     *)
(* "Abstract" matches "abstract", so the deletion stops at, and happens    *)
(* because of, text that is no anchor as written.                          *)
(***************************************************************************)
C22_BoundedBlockRemoval ==
    [][pc = "blocks" => text' = ReSub(BlockAsWritten(k + 1), <<>>, text)]_vars

\* l neither starts nor ends with a space or a tab.
NoOuterSpace(l) ==
    l # <<>> => (l[1] \notin HorizontalWS /\ l[Len(l)] \notin HorizontalWS)

\* C23: no line of the text clean_text returns starts or ends with a space
\* or a tab, and the text holds no tab and no two spaces in a row.  The same
\* holds of the line the rejoiner is accumulating, after a join with a space
\* and after a join that drops a hyphen, and of the lines it has emitted.
C23_HorizontalWhitespace ==
    /\ pc = "done" =>
          /\ \A n \in 1..Len(SplitNL(ret)) : NoOuterSpace(SplitNL(ret)[n])
          /\ \A n \in 1..Len(ret) : ret[n] # "\t"
          /\ NoSpaceRun(ret)
    /\ pc \in {"inner", "emit"} =>
          /\ NoOuterSpace(line)
          /\ NoSpaceRun(line)
          /\ \A n \in 1..Len(line) : line[n] # "\t"
    /\ pc \in {"outer", "inner", "emit"} =>
          \A n \in 1..Len(result) : NoOuterSpace(result[n]) /\ NoSpaceRun(result[n])

\* A page with two spaces in a row, a tab at the end of its first line and
\* one at the start of its second has been returned as one line, the two
\* lines joined with one space.
C23_Witness ==
    /\ pc = "done"
    /\ Contains(pages[1], <<" ", " ">>)
    /\ Contains(pages[1], <<"\t", "\n", "\t">>)
    /\ ret = <<"x", " ", "y", " ", "z">>

(***************************************************************************)
(* C24. The rejoiner drops a blank line only when it joins the lines on    *)
(* its two sides: an iteration of the inner loop that stops extending the  *)
(* current line leaves the cursor where it was, so that a blank line after *)
(* the current line is emitted after it; and when the rejoiner returns, a  *)
(* blank line that stood between a heading and another line has left an    *)
(* empty line in the output.                                               *)
(* Line 239 moves the cursor past the blank line before lines 246-252 test *)
(* for headings: when the current line is a heading the loop stops with    *)
(* the blank line skipped and nothing joined.                              *)
(***************************************************************************)
C24_BlankLineKept ==
    [][ /\ (pc = "inner" /\ pc' = "emit") => (i' = i /\ line' = line)
        /\ (pc = "outer" /\ pc' = "rejoined") =>
              \A j \in 2..(Len(lines) - 1) :
                  (/\ IsBlank(lines[j])
                   /\ ~IsBlank(lines[j - 1])
                   /\ ~IsBlank(lines[j + 1])
                   /\ IsHeading(Strip(lines[j - 1])))
                  => \E r \in 1..Len(result) : result[r] = <<>>
      ]_vars

\* The characters of txt that are not whitespace, and those that are
\* neither whitespace nor a hyphen, in their order.
NonWS(txt) == SelectSeq(txt, LAMBDA c : c \notin WS)
NoHyphen(txt) == SelectSeq(txt, LAMBDA c : c \notin WS \cup {"-"})
\* The characters that are not whitespace of the physical lines from the
\* n-th on.
Rest(n) == NonWS(Join(<<>>, SubSeq(lines, n, Len(lines))))

\* C25: the rejoiner loses, doubles and reorders nothing.  The characters
\* that are not whitespace of the current line followed by those of the
\* physical lines after the cursor stay the same through every iteration of
\* the inner loop, a bridge and a stop after a bridge included, but for the
\* hyphen at the end of the current line when a join drops it; the current
\* line starts as the line at the cursor, is emitted as it stands, and the
\* cursor then moves on by one; the rejoiner returns when the cursor is
\* past the last line, and what it returns has the characters of its input
\* in their order, hyphens set aside.
C25_ContentConserved ==
    [][ /\ (pc = "outer" /\ pc' = "inner") => line' = Strip(lines[i + 1])
        /\ pc = "inner" =>
              \/ NonWS(line') \o Rest(i' + 2) = NonWS(line) \o Rest(i + 2)
              \/ /\ line # <<>>
                 /\ line[Len(line)] = "-"
                 /\ line' # line
                 /\ NonWS(line') \o Rest(i' + 2)
                      = NonWS(SubSeq(line, 1, Len(line) - 1)) \o Rest(i + 2)
        /\ pc = "emit" => (result' = Append(result, line) /\ i' = i + 1)
        /\ (pc = "outer" /\ pc' = "rejoined") =>
              /\ i >= Len(lines)
              /\ text' = JoinNL(result)
              /\ NoHyphen(text') = NoHyphen(JoinNL(lines))
              /\ Len(NonWS(text')) <= Len(NonWS(JoinNL(lines)))
              /\ Len(NonWS(JoinNL(lines))) - Len(NonWS(text'))
                    <= Cardinality({j \in 1..Len(lines) : EndsWith(Strip(lines[j]), <<"-">>)})
      ]_vars

\* A line that ends in a word-break hyphen has been joined across a blank
\* line to the line after it: one logical line, without the hyphen.
C25_Witness ==
    /\ pc = "rejoined"
    /\ Len(lines) = 3
    /\ IsBlank(lines[2])
    /\ IsWordBreak(Strip(lines[1]))
    /\ ~IsBlank(lines[3])
    /\ result = <<SubSeq(Strip(lines[1]), 1, Len(Strip(lines[1])) - 1) \o Strip(lines[3])>>

\* C26: when the rejoiner returns, of two logical lines that follow each
\* other and are both non-blank, the first is a heading, or the second is a
\* heading, or the first ends a sentence.
C26_GreedyComplete ==
    pc = "rejoined" =>
        \A r \in 1..(Len(result) - 1) :
            (result[r] # <<>> /\ result[r + 1] # <<>>) =>
                \/ IsHeading(result[r])
                \/ IsHeading(result[r + 1])
                \/ EndsSentence(result[r])

\* Three physical lines, none of them blank, have become two logical lines
\* that are no headings: the first two were joined into a line that ends a
\* sentence, and the third was left on its own.
C26_Witness ==
    /\ pc = "rejoined"
    /\ Len(lines) = 3
    /\ \A n \in 1..3 : ~IsBlank(lines[n])
    /\ Len(result) = 2
    /\ ~IsHeading(result[1]) /\ ~IsHeading(result[2])
    /\ EndsSentence(result[1])
    /\ ~EndsSentence(Strip(lines[1]))

\* C27: in extract_text, extract_text_raw and extract_figures the document,
\* once opened, is closed exactly once on every path out of the function,
\* the paths on which reading a page or listing its images raises and those
\* on which an image cannot be extracted included: the handle is open, and
\* not yet closed, only inside the loop over the pages, and closed, by one
\* call of close, wherever the function is left after fitz.open succeeded.
\* No step reads the document unless the handle is open.
InsideLoop == pc \in {"pages", "raw_pages", "fig_pages", "fig_images"}
ReadsDocument ==
    \/ ReadPage
    \/ ReadFails
    \/ RawReadPage
    \/ RawReadFails
    \/ GetImages
    \/ GetImagesFails
    \/ SaveImage
HandleReleased ==
    /\ doc \in {"none", "open", "closed"}
    /\ closes = IF doc = "closed" THEN 1 ELSE 0
    /\ doc = "open" <=> InsideLoop
C27_HandleReleased ==
    /\ []HandleReleased
    /\ [][ReadsDocument => doc = "open"]_vars
\* extract_figures was left by an exception raised while the images of a
\* page were listed, after an image that could not be extracted was passed
\* over and another was saved, and the document was closed once.
C27_Witness ==
    /\ entry = "process_paper"
    /\ pc = "raised"
    /\ err \in DecoderErrors
    /\ extracted # <<>>
    /\ \E p \in 1..page_num : \E j \in 1..Len(images[p]) : images[p][j] = "broken"
    /\ doc = "closed"
    /\ closes = 1

\* C28: the files extract_figures wrote are figure_1..figure_n, numbered in
\* the order the images were extracted; after the artifacts are deleted and
\* the kept figures renamed in order, the kept figures are figure_1..figure_k,
\* each with the suffix and the bytes it had, in the order they were
\* extracted in; no rename is given the name of another kept figure and none
\* changes the bytes of a kept figure, whichever images are classified as
\* artifacts and whichever fail classification.
Earlier(a, b) == a[1] < b[1] \/ (a[1] = b[1] /\ a[2] < b[2])
\* The paths are figure_1..figure_n, of files holding whole images in the
\* order of extraction.
InOrder(d, paths) ==
    /\ \A r \in 1..Len(paths) :
           /\ paths[r].num = r
           /\ Exists(d, paths[r])
           /\ FileAt(d, paths[r]).content # <<>>
    /\ \A r \in 1..(Len(paths) - 1) :
           Earlier(FileAt(d, paths[r]).content, FileAt(d, paths[r + 1]).content)
\* The figures kept: those renamed already and those still to rename.
KeptPaths == final_paths \o SubSeq(figure_paths, fig_i + 1, Len(figure_paths))
KeptNext == final_paths' \o SubSeq(figure_paths', fig_i' + 1, Len(figure_paths'))
Renumbered ==
    /\ (pc = "filter" /\ fig_i = 0) => InOrder(dir, extracted)
    /\ pc = "rename" => \A r \in 1..Len(KeptPaths) : Exists(dir, KeptPaths[r])
    /\ (pc = "figures" /\ extracted # <<>>) =>
           /\ InOrder(dir, figure_paths)
           /\ \A r \in 1..Len(figure_paths) :
                  \E q \in 1..Len(extracted) : extracted[q].ext = figure_paths[r].ext
RenameKeepsFigures ==
    (pc = "rename" /\ fig_i' = fig_i + 1) =>
        LET target == final_paths'[fig_i + 1] IN
        /\ \A r \in 1..Len(KeptPaths) : r # fig_i + 1 => KeptPaths[r] # target
        /\ Len(KeptNext) = Len(KeptPaths)
        /\ \A r \in 1..Len(KeptPaths) :
               /\ Exists(dir', KeptNext[r])
               /\ FileAt(dir', KeptNext[r]).content = FileAt(dir, KeptPaths[r]).content
               /\ KeptNext[r].ext = KeptPaths[r].ext
C28_FiguresRenumbered ==
    /\ []Renumbered
    /\ [][RenameKeepsFigures]_vars
\* Three images of one page were saved, the first was deleted as an
\* artifact, and the two others are now figure_1 and figure_2.
C28_Witness ==
    /\ pc = "figures"
    /\ Len(extracted) = 3
    /\ Len(figure_paths) = 2
    /\ FileAt(dir, figure_paths[1]).content = <<0, 1>>
    /\ FileAt(dir, figure_paths[2]).content = <<0, 2>>
    /\ figure_paths[1].ext # figure_paths[2].ext
    /\ Cardinality(dir) = 2

=============================================================================
